---- MODULE Spec2Model ----
(***************************************************************************)
(* Model of chunk_text, the text chunker of the Drive content exporter     *)
(* (src/export_gdrive_content_to_treelisty.py, lines 126-207).             *)
(*                                                                         *)
(* A Python string is modelled as a sequence of characters.  Every         *)
(* character is a record [ch, pos]: ch is the character itself and pos is  *)
(* a history tag, the 1-based index the character had in the argument of   *)
(* the call (0 for a separator character the code inserts itself).  The    *)
(* code never looks at pos; the tag only lets the properties speak about   *)
(* where a character of a chunk came from.                                 *)
(*                                                                         *)
(* Every invocation of chunk_text owns one frame, a record of its          *)
(* arguments, locals and program position.  One action models one          *)
(* straight-line piece of the function: the prologue, one iteration of the *)
(* paragraph loop, of the sentence loop, of the window loop, the exit of   *)
(* an inner loop, and the epilogue.                                        *)
(***************************************************************************)
EXTENDS Integers, Sequences, FiniteSets

VARIABLES frame

vars == << frame >>

----------------------------------------------------------------------------
(* Bounds of the model *)

\* longest argument text of the single-invocation specifications
MaxLen == 6
\* largest chunk_size argument
MaxChunkSize == 5
\* longest argument text of the specification with fairness
MaxLenFair == 4
\* largest chunk_size argument of the specification with fairness
MaxChunkSizeFair == 2
\* longest argument text when two invocations are interleaved
MaxLenPair == 2
\* largest chunk_size argument when two invocations are interleaved
MaxChunkSizePair == 2

\* most units (letter, blank, paragraph break) of a text built from units
MaxUnits == 7

\* how far a requested --chunk-size lies beyond a limit or the default
MaxOver == 3
\* how far a document text is longer than the near-empty threshold
MaxDocOver == 2
\* most files the scan extracts in one export
MaxFiles == 2

\* longest argument text whose chunks are wrapped into nodes
MaxLenNodes == 3
\* longest run of letters whose chunks are wrapped into nodes
MaxRunNodes == 11

\* most items the listings of one scan hold together
MaxListed == 3
\* largest --max-depth of a scan
MaxDepthArg == 1

\* letter, sentence punctuation, blank, newline
Alphabet == {"a", ".", " ", "\n"}

----------------------------------------------------------------------------
(* Strings *)

Min(S) == CHOOSE x \in S : \A y \in S : x <= y

Max(S) == CHOOSE x \in S : \A y \in S : y <= x

\* the characters str.strip() removes and \s matches
IsSpace(c) == c.ch \in {" ", "\n"}

\* the characters of the lookbehind class [.!?]
IsSentenceEnd(c) == c.ch = "."

\* the argument string t as a tagged sequence
Tag(t) == [k \in 1..Len(t) |-> [ch |-> t[k], pos |-> k]]

\* a string the code builds itself (a separator literal)
Literal(t) == [k \in 1..Len(t) |-> [ch |-> t[k], pos |-> 0]]

\* the untagged string
Chars(s) == [k \in 1..Len(s) |-> s[k].ch]

\* str.strip()
strip(s) ==
    LET keep == {k \in 1..Len(s) : ~IsSpace(s[k])}
    IN  IF keep = {} THEN << >> ELSE SubSeq(s, Min(keep), Max(keep))

\* the least element of the set S of numbers that has exactly i smaller ones
Nth(S, i) == CHOOSE k \in S : Cardinality({j \in S : j < k}) = i

\* a normalisation that leaves the runs of newlines as they are
re_sub_none(s) == s

\* line 137: re.sub(r'\n{3,}', '\n\n', s): of every maximal run of three or
\* more newlines only two newlines stay
re_sub(s) ==
    LET indexed == [k \in 1..Len(s) |-> [k |-> k, c |-> s[k]]]
        Stays(x) == ~( /\ x.k >= 3
                       /\ s[x.k].ch = "\n"
                       /\ s[x.k - 1].ch = "\n"
                       /\ s[x.k - 2].ch = "\n" )
        stay == SelectSeq(indexed, Stays)
    IN  [i \in 1..Len(stay) |-> stay[i].c]

\* line 148: s.split('\n\n'): the separators are the pairs of newlines found
\* from left to right without overlap, so within a run of newlines those at
\* an even distance from the start of the run
split(s) ==
    LET n == Len(s)
        RunStart(k) == 1 + Max({0} \cup {j \in 1..k : s[j].ch # "\n"})
        seps == {k \in 1..n - 1 : /\ s[k].ch = "\n" /\ s[k + 1].ch = "\n"
                                  /\ (k - RunStart(k)) % 2 = 0}
        m == Cardinality(seps)
    IN  [i \in 1..m + 1 |->
            SubSeq(s, IF i = 1 THEN 1 ELSE Nth(seps, i - 2) + 2,
                      IF i = m + 1 THEN n ELSE Nth(seps, i - 1) - 1)]

\* length of the run of whitespace of s that starts at index k
RECURSIVE SpaceRun(_, _)
SpaceRun(s, k) ==
    IF k <= Len(s) /\ IsSpace(s[k]) THEN 1 + SpaceRun(s, k + 1) ELSE 0

\* line 170: re.split(r'(?<=[.!?])\s+', s): a separator is a maximal
\* whitespace run that directly follows a sentence end
re_split(s) ==
    LET n == Len(s)
        seps == {k \in 2..n : IsSentenceEnd(s[k - 1]) /\ IsSpace(s[k])}
        m == Cardinality(seps)
    IN  [i \in 1..m + 1 |->
            SubSeq(s, IF i = 1 THEN 1
                      ELSE Nth(seps, i - 2) + SpaceRun(s, Nth(seps, i - 2)),
                      IF i = m + 1 THEN n ELSE Nth(seps, i - 1) - 1)]

\* the slice s[i:j] of a 0-based Python string
Slice(s, i, j) == SubSeq(s, i + 1, IF j < Len(s) THEN j ELSE Len(s))

----------------------------------------------------------------------------
(* Chunks *)

\* the dict {'text': t, 'charCount': len(t), 'isLeaf': True}
Chunk(t) == [text |-> t, charCount |-> Len(t), isLeaf |-> TRUE]

\* a flush that puts the new chunk in front of the list
FlushFront(chunks, current_chunk) ==
    << Chunk(strip(current_chunk)) >> \o chunks

\* chunks.append({... current_chunk.strip() ...})
Flush(chunks, current_chunk) == Append(chunks, Chunk(strip(current_chunk)))

\* a join that leaves the separator out
JoinNoSeparator(current_chunk, sep, unit) == current_chunk \o unit

\* current_chunk += sep + unit if current_chunk else unit
Join(current_chunk, sep, unit) ==
    IF current_chunk # << >> THEN current_chunk \o Literal(sep) \o unit
    ELSE unit

\* the guard without its whitespace test
IsBlankNoStrip(text) == text = << >>

\* line 133: not text or not text.strip()
IsBlank(text) == text = << >> \/ strip(text) = << >>

\* the fast-path test with a strict comparison
FitsWholeStrict(text, chunk_size) == Len(text) < chunk_size

\* line 140: len(text) <= chunk_size
FitsWhole(text, chunk_size) == Len(text) <= chunk_size

\* a paragraph loop that skips nothing
IsSkippedNever(para) == FALSE

\* lines 153-154: if not para: continue
IsSkipped(para) == para = << >>

\* the overflow test that also flushes when the paragraph would just fit
ParagraphOverflowsAtLimit(current_chunk, para, chunk_size) ==
    Len(current_chunk) + Len(para) + 2 >= chunk_size

\* the overflow test without the length of the separator
ParagraphOverflowsNoSeparator(current_chunk, para, chunk_size) ==
    Len(current_chunk) + Len(para) > chunk_size

\* line 157: len(current_chunk) + len(para) + 2 > chunk_size
ParagraphOverflows(current_chunk, para, chunk_size) ==
    Len(current_chunk) + Len(para) + 2 > chunk_size

\* the overflow test without the length of the blank
SentenceOverflowsNoSeparator(current_chunk, sentence, chunk_size) ==
    Len(current_chunk) + Len(sentence) > chunk_size

\* line 172: len(current_chunk) + len(sentence) + 1 > chunk_size
SentenceOverflows(current_chunk, sentence, chunk_size) ==
    Len(current_chunk) + Len(sentence) + 1 > chunk_size

\* the size test that already splits a paragraph of exactly chunk_size
ParagraphTooLargeAtLimit(para, chunk_size) == Len(para) >= chunk_size

\* line 168: len(para) > chunk_size
ParagraphTooLarge(para, chunk_size) == Len(para) > chunk_size

\* the size test that already slices a sentence of exactly chunk_size
SentenceTooLargeAtLimit(sentence, chunk_size) == Len(sentence) >= chunk_size

\* line 181: len(sentence) > chunk_size
SentenceTooLarge(sentence, chunk_size) == Len(sentence) > chunk_size

\* the window text without the trimming
WindowTextUntrimmed(sentence, i, chunk_size) ==
    Slice(sentence, i, i + chunk_size)

\* line 183: sentence[i:i+chunk_size].strip()
WindowText(sentence, i, chunk_size) ==
    strip(Slice(sentence, i, i + chunk_size))

\* the window append without its emptiness test
AppendWindowAlways(chunks, piece) == Append(chunks, Chunk(piece))

\* lines 184-189: if chunk_text: chunks.append({... chunk_text ...})
AppendWindow(chunks, piece) ==
    IF piece # << >> THEN Append(chunks, Chunk(piece)) ELSE chunks

----------------------------------------------------------------------------
(* The frame of one invocation *)

\* the frame at the call chunk_text(t, size)
Call(t, size) ==
    [ input         |-> Tag(t),
      text          |-> Tag(t),
      chunk_size    |-> size,
      pc            |-> "call",
      chunks        |-> << >>,
      paragraphs    |-> << >>,
      p             |-> 0,
      current_chunk |-> << >>,
      sentences     |-> << >>,
      s             |-> 0,
      i             |-> 0,
      ret           |-> << >> ]

\* lines 133-149: the guard, the normalisation, the fast path, the split
Prologue(f) ==
    IF IsBlank(f.text)
    THEN [f EXCEPT !.pc = "done", !.ret = << >>]
    ELSE LET text == re_sub(strip(f.text))
         IN  IF FitsWhole(text, f.chunk_size)
             THEN [f EXCEPT !.text = text, !.pc = "done",
                            !.ret = << Chunk(text) >>]
             ELSE [f EXCEPT !.text = text, !.pc = "for_para",
                            !.chunks = << >>,
                            !.paragraphs = split(text), !.p = 1,
                            !.current_chunk = << >>]

\* lines 151-170 and 194-197: one paragraph, up to its sentence loop
Paragraph(f) ==
    LET para == strip(f.paragraphs[f.p])
        flushed == IF f.current_chunk # << >>
                   THEN Flush(f.chunks, f.current_chunk) ELSE f.chunks
    IN  IF IsSkipped(para)
        THEN [f EXCEPT !.p = f.p + 1]
        ELSE IF ParagraphOverflows(f.current_chunk, para, f.chunk_size)
             THEN IF ParagraphTooLarge(para, f.chunk_size)
                  THEN [f EXCEPT !.chunks = flushed, !.current_chunk = << >>,
                                 !.sentences = re_split(para), !.s = 1,
                                 !.pc = "for_sentence"]
                  ELSE [f EXCEPT !.chunks = flushed, !.current_chunk = para,
                                 !.p = f.p + 1]
             ELSE [f EXCEPT !.current_chunk =
                                Join(f.current_chunk, << "\n", "\n" >>, para),
                            !.p = f.p + 1]

\* lines 171-181 and 190-193: one sentence, up to its window loop;
\* range(0, len(sentence), 0) raises ValueError
Sentence(f) ==
    LET sentence == f.sentences[f.s]
        flushed == IF f.current_chunk # << >>
                   THEN Flush(f.chunks, f.current_chunk) ELSE f.chunks
    IN  IF SentenceOverflows(f.current_chunk, sentence, f.chunk_size)
        THEN IF SentenceTooLarge(sentence, f.chunk_size)
             THEN IF f.chunk_size = 0
                  THEN [f EXCEPT !.chunks = flushed, !.current_chunk = << >>,
                                 !.pc = "raised"]
                  ELSE [f EXCEPT !.chunks = flushed, !.current_chunk = << >>,
                                 !.i = 0, !.pc = "for_i"]
             ELSE [f EXCEPT !.chunks = flushed, !.current_chunk = sentence,
                            !.s = f.s + 1]
        ELSE [f EXCEPT !.current_chunk = Join(f.current_chunk, << " " >>, sentence),
                       !.s = f.s + 1]

\* a window step that skips the character after each window
NextWindowSkipping(i, chunk_size) == i + chunk_size + 1

\* a window step that does not move forward
NextWindowStuck(i, chunk_size) == i

\* line 182: the next value of range(0, len(sentence), chunk_size)
NextWindow(i, chunk_size) == i + chunk_size

\* lines 182-189: one window of an oversized sentence
Window(f) ==
    LET sentence == f.sentences[f.s]
        piece == WindowText(sentence, f.i, f.chunk_size)
    IN  [f EXCEPT !.chunks = AppendWindow(f.chunks, piece),
                  !.i = NextWindow(f.i, f.chunk_size)]

\* line 182, range exhausted: on to the next sentence
EndWindows(f) == [f EXCEPT !.s = f.s + 1, !.pc = "for_sentence"]

\* line 171, sentences exhausted: on to the next paragraph
EndSentences(f) == [f EXCEPT !.p = f.p + 1, !.pc = "for_para"]

\* lines 199-207: the last chunk and the return
Epilogue(f) ==
    LET chunks == IF strip(f.current_chunk) # << >>
                  THEN Flush(f.chunks, f.current_chunk) ELSE f.chunks
    IN  [f EXCEPT !.chunks = chunks, !.ret = chunks, !.pc = "done"]

\* the invocation has returned or raised
Finished(f) == f.pc \in {"done", "raised"}

\* the piece of code the invocation runs next
Step(f) ==
    CASE f.pc = "call" -> Prologue(f)
      [] f.pc = "for_para" ->
            IF f.p <= Len(f.paragraphs) THEN Paragraph(f) ELSE Epilogue(f)
      [] f.pc = "for_sentence" ->
            IF f.s <= Len(f.sentences) THEN Sentence(f) ELSE EndSentences(f)
      [] f.pc = "for_i" ->
            IF f.i < Len(f.sentences[f.s]) THEN Window(f) ELSE EndWindows(f)

\* the frame in which an invocation running on its own finishes
RECURSIVE Run(_)
Run(f) == IF Finished(f) THEN f ELSE Run(Step(f))

\* chunk_text(t, size) called on its own: the frame it finishes in
chunk_text(t, size) == Run(Call(t, size))

----------------------------------------------------------------------------
(* Actions: invocation c runs its next piece of code *)

DoPrologue ==
    \E c \in DOMAIN frame :
        /\ frame[c].pc = "call"
        /\ frame' = [frame EXCEPT ![c] = Prologue(frame[c])]

DoParagraph ==
    \E c \in DOMAIN frame :
        /\ frame[c].pc = "for_para"
        /\ frame[c].p <= Len(frame[c].paragraphs)
        /\ frame' = [frame EXCEPT ![c] = Paragraph(frame[c])]

DoSentence ==
    \E c \in DOMAIN frame :
        /\ frame[c].pc = "for_sentence"
        /\ frame[c].s <= Len(frame[c].sentences)
        /\ frame' = [frame EXCEPT ![c] = Sentence(frame[c])]

DoWindow ==
    \E c \in DOMAIN frame :
        /\ frame[c].pc = "for_i"
        /\ frame[c].i < Len(frame[c].sentences[frame[c].s])
        /\ frame' = [frame EXCEPT ![c] = Window(frame[c])]

DoEndWindows ==
    \E c \in DOMAIN frame :
        /\ frame[c].pc = "for_i"
        /\ frame[c].i >= Len(frame[c].sentences[frame[c].s])
        /\ frame' = [frame EXCEPT ![c] = EndWindows(frame[c])]

DoEndSentences ==
    \E c \in DOMAIN frame :
        /\ frame[c].pc = "for_sentence"
        /\ frame[c].s > Len(frame[c].sentences)
        /\ frame' = [frame EXCEPT ![c] = EndSentences(frame[c])]

\* the epilogue with `chunks` kept in one list shared by all invocations
DoEpilogueSharedChunks ==
    \E c \in DOMAIN frame :
        LET others == DOMAIN frame \ {c}
            shared == IF others = {} THEN frame[c].chunks
                      ELSE frame[CHOOSE o \in others : TRUE].chunks
                               \o frame[c].chunks
        IN  /\ frame[c].pc = "for_para"
            /\ frame[c].p > Len(frame[c].paragraphs)
            /\ frame' = [frame EXCEPT ![c] =
                              Epilogue([frame[c] EXCEPT !.chunks = shared])]

DoEpilogue ==
    \E c \in DOMAIN frame :
        /\ frame[c].pc = "for_para"
        /\ frame[c].p > Len(frame[c].paragraphs)
        /\ frame' = [frame EXCEPT ![c] = Epilogue(frame[c])]

----------------------------------------------------------------------------
(* Specifications *)

\* every string over Alphabet of length at most n
Texts(n) == UNION {[1..k -> Alphabet] : k \in 0..n}

\* one invocation, any text and any chunk_size within the bounds
Init ==
    \E t \in Texts(MaxLen), size \in 0..MaxChunkSize :
        frame = [c \in {1} |-> Call(t, size)]

\* two invocations in flight at once
InitPair ==
    \E t1 \in Texts(MaxLenPair), t2 \in Texts(MaxLenPair),
       size1 \in 0..MaxChunkSizePair, size2 \in 0..MaxChunkSizePair :
        frame = [c \in {1, 2} |-> IF c = 1 THEN Call(t1, size1)
                                  ELSE Call(t2, size2)]

Next ==
    \/ DoPrologue
    \/ DoParagraph
    \/ DoSentence
    \/ DoWindow
    \/ DoEndWindows
    \/ DoEndSentences
    \/ DoEpilogue

Spec == Init /\ [][Next]_vars

SpecPair == InitPair /\ [][Next]_vars

\* one invocation, any text up to MaxLenFair and any chunk_size up to
\* MaxChunkSizeFair
InitFair ==
    \E t \in Texts(MaxLenFair), size \in 0..MaxChunkSizeFair :
        frame = [c \in {1} |-> Call(t, size)]

\* a letter, a blank, a paragraph break
Units == {<< "a" >>, << " " >>, << "\n", "\n" >>}

\* the concatenation of a sequence of strings
RECURSIVE Concat(_)
Concat(us) == IF us = << >> THEN << >> ELSE Head(us) \o Concat(Tail(us))

\* one invocation on a text of paragraphs: any sequence of at most MaxUnits
\* units, and any chunk_size within the bounds
InitParagraphs ==
    \E us \in UNION {[1..k -> Units] : k \in 0..MaxUnits},
       size \in 0..MaxChunkSize :
        frame = [c \in {1} |-> Call(Concat(us), size)]

SpecParagraphs == InitParagraphs /\ [][Next]_vars

----------------------------------------------------------------------------
(* The command line of the exporter *)

\* lines 68-70
DEFAULT_CHUNK_SIZE == 1500
MAX_CHUNK_SIZE == 4000
MIN_CHUNK_SIZE == 200

\* line 412: a text of at most this many characters is skipped as near-empty
NearEmpty == 50

\* a validation that only applies the upper limit
ValidateChunkSizeUpperOnly(requested) == Min({MAX_CHUNK_SIZE, requested})

\* line 581: max(MIN_CHUNK_SIZE, min(MAX_CHUNK_SIZE, args.chunk_size))
ValidateChunkSize(requested) ==
    Max({MIN_CHUNK_SIZE, Min({MAX_CHUNK_SIZE, requested})})

\* the frame of __main__ after parse_args()
Main(requested) ==
    [ pc |-> "main", requested |-> requested, chunk_size |-> 0, files |-> 0 ]

\* values of --chunk-size (type=int) around zero, the limits and the default
Requested ==
    UNION {(b - MaxOver)..(b + MaxOver) :
             b \in {0, MIN_CHUNK_SIZE, DEFAULT_CHUNK_SIZE, MAX_CHUNK_SIZE}}

\* texts of extracted documents around the near-empty threshold, with or
\* without a blank in front
DocTexts ==
    {[k \in 1..n |-> IF k = 1 /\ lead THEN " " ELSE "a"] :
        n \in (NearEmpty - 1)..(NearEmpty + MaxDocOver), lead \in BOOLEAN}

\* line 412: text and len(text.strip()) > 50
IsExtracted(t) == t # << >> /\ Len(strip(Tag(t))) > NearEmpty

\* lines 581-585: the chunk size is validated and handed to the export
DoValidate ==
    /\ 0 \in DOMAIN frame
    /\ frame[0].pc = "main"
    /\ frame' = [frame EXCEPT
                   ![0].chunk_size = ValidateChunkSize(frame[0].requested),
                   ![0].pc = "scan"]

\* lines 392 and 412-415: the scan comes to the next file; a near-empty text
\* is skipped, any other is handed to chunk_text with the chunk size of the
\* export
DoExtract ==
    /\ 0 \in DOMAIN frame
    /\ frame[0].pc = "scan"
    /\ frame[0].files < MaxFiles
    /\ \A c \in DOMAIN frame \ {0} : Finished(frame[c])
    /\ \E t \in DocTexts :
          LET n == frame[0].files + 1
              main == [frame[0] EXCEPT !.files = n]
          IN  frame' = [c \in DOMAIN frame \cup (IF IsExtracted(t) THEN {n} ELSE {}) |->
                          IF c = 0 THEN main
                          ELSE IF c = n THEN Call(t, main.chunk_size)
                          ELSE frame[c]]

\* the exporter is started with any requested chunk size
InitMain == \E requested \in Requested : frame = [c \in {0} |-> Main(requested)]

\* the command line, the scan, and the calls of chunk_text, which return
\* from the fast path for texts this short
NextMain ==
    \/ DoValidate
    \/ DoExtract
    \/ DoPrologue

SpecMain == InitMain /\ [][NextMain]_vars

----------------------------------------------------------------------------
(* The nodes of the chunks *)

\* the decimal digit d as a character
Digit(d) == << "0", "1", "2", "3", "4", "5", "6", "7", "8", "9" >>[d + 1]

\* the formatting {n} of an f-string, for a natural number n
RECURSIVE Decimal(_)
Decimal(n) ==
    IF n < 10 THEN << Digit(n) >>
    ELSE Decimal(n \div 10) \o << Digit(n % 10) >>

\* a name that numbers every node, a single one too
NodeNameNumbered(i, chunks, parent_name) ==
    << "C", "h", "u", "n", "k", " " >> \o Decimal(i + 1)

\* line 330: f"Chunk {i + 1}" if len(chunks) > 1 else parent_name
NodeName(i, chunks, parent_name) ==
    IF Len(chunks) > 1
    THEN << "C", "h", "u", "n", "k", " " >> \o Decimal(i + 1)
    ELSE parent_name

\* lines 324-347: the list of nodes, ids[i + 1] being what generate_node_id()
\* returns for node i
create_chunk_nodes(chunks, parent_name, file_id, ids) ==
    [k \in 1..Len(chunks) |->
        LET i == k - 1
            chunk == chunks[k]
        IN  [ id          |-> ids[k],
              name        |-> NodeName(i, chunks, parent_name),
              description |-> chunk.text,
              type        |-> "item",
              external    |-> [ type       |-> "gdrive:chunk",
                                fileId     |-> file_id,
                                chunkIndex |-> i ],
              rag         |-> [ chunk |-> [ charCount |-> chunk.charCount,
                                            isLeaf    |-> chunk.isLeaf ] ] ]]

\* line 123: values of generate_node_id(), which may or may not repeat
NodeIds == {"n_0000000a", "n_0000000b"}

\* names of documents, one of them looking like the name of a chunk
ParentNames == {<< "d" >>, << "C", "h", "u", "n", "k", " ", "2" >>}

\* ids of documents
FileIds == {"f1", "f2"}

\* create_chunk_nodes is called on the chunks that invocation 1 returned
DoCreateChunkNodes ==
    /\ DOMAIN frame = {1}
    /\ frame[1].pc = "done"
    /\ \E parent_name \in ParentNames, file_id \in FileIds,
          ids \in [1..Len(frame[1].ret) -> NodeIds] :
          frame' = [c \in {1, 2} |->
                      IF c = 1 THEN frame[1]
                      ELSE [ pc          |-> "nodes",
                             chunks      |-> frame[1].ret,
                             parent_name |-> parent_name,
                             file_id     |-> file_id,
                             nodes       |-> create_chunk_nodes(
                                                 frame[1].ret, parent_name,
                                                 file_id, ids) ]]

\* one invocation, on any text up to MaxLenNodes or on a run of letters up
\* to MaxRunNodes, with any chunk_size within the bounds
InitNodes ==
    \E t \in Texts(MaxLenNodes) \cup {[k \in 1..n |-> "a"] : n \in 0..MaxRunNodes},
       size \in 0..MaxChunkSize :
        frame = [c \in {1} |-> Call(t, size)]

NextNodes ==
    \/ Next
    \/ DoCreateChunkNodes

SpecNodes == InitNodes /\ [][NextNodes]_vars

----------------------------------------------------------------------------
(* Download and extraction of one Drive file *)

\* Python's None, and a str
None == [is_none |-> TRUE]
Str(t) == [is_none |-> FALSE, str |-> t]

\* lines 73-87: the mime types text is extracted from, and how
EXTRACTABLE_TYPES ==
    LET exported == {"application/vnd.google-apps.document",
                     "application/vnd.google-apps.spreadsheet",
                     "application/vnd.google-apps.presentation"}
        downloaded == {"application/pdf",
                       "application/vnd.openxmlformats-officedocument.wordprocessingml.document",
                       "application/msword",
                       "application/vnd.openxmlformats-officedocument.spreadsheetml.sheet",
                       "text/plain", "text/markdown", "application/json"}
    IN  [m \in exported \cup downloaded |->
            IF m \in exported THEN "export" ELSE "download"]

\* line 217: the placeholder returned when PyMuPDF is not installed
PdfRequires ==
    << "[", "P", "D", "F", " ", "e", "x", "t", "r", "a", "c", "t", "i",
       "o", "n", " ", "r", "e", "q", "u", "i", "r", "e", "s", " ", "P",
       "y", "M", "u", "P", "D", "F", ":", " ", "p", "i", "p", " ", "i",
       "n", "s", "t", "a", "l", "l", " ", "P", "y", "M", "u", "P", "D",
       "F", "]" >>

\* line 227: the front of f"[PDF extraction error: {e}]"
PdfError ==
    << "[", "P", "D", "F", " ", "e", "x", "t", "r", "a", "c", "t", "i",
       "o", "n", " ", "e", "r", "r", "o", "r", ":", " " >>

\* line 233: the placeholder returned when python-docx is not installed
DocxRequires ==
    << "[", "W", "o", "r", "d", " ", "e", "x", "t", "r", "a", "c", "t",
       "i", "o", "n", " ", "r", "e", "q", "u", "i", "r", "e", "s", " ",
       "p", "y", "t", "h", "o", "n", "-", "d", "o", "c", "x", ":", " ",
       "p", "i", "p", " ", "i", "n", "s", "t", "a", "l", "l", " ", "p",
       "y", "t", "h", "o", "n", "-", "d", "o", "c", "x", "]" >>

\* line 240: the front of f"[Word extraction error: {e}]"
DocxError ==
    << "[", "W", "o", "r", "d", " ", "e", "x", "t", "r", "a", "c", "t",
       "i", "o", "n", " ", "e", "r", "r", "o", "r", ":", " " >>

\* line 246: the placeholder returned when openpyxl is not installed
XlsxRequires ==
    << "[", "E", "x", "c", "e", "l", " ", "e", "x", "t", "r", "a", "c",
       "t", "i", "o", "n", " ", "r", "e", "q", "u", "i", "r", "e", "s",
       " ", "o", "p", "e", "n", "p", "y", "x", "l", ":", " ", "p", "i",
       "p", " ", "i", "n", "s", "t", "a", "l", "l", " ", "o", "p", "e",
       "n", "p", "y", "x", "l", "]" >>

\* line 267: the front of f"[Excel extraction error: {e}]"
XlsxError ==
    << "[", "E", "x", "c", "e", "l", " ", "e", "x", "t", "r", "a", "c",
       "t", "i", "o", "n", " ", "e", "r", "r", "o", "r", ":", " " >>

\* lines 214-227: the text of a PDF, the placeholder, or the error message
extract_text_from_pdf(content, HAS_PYMUPDF) ==
    IF ~HAS_PYMUPDF THEN PdfRequires
    ELSE IF content.parse_raises THEN PdfError \o content.e \o << "]" >>
    ELSE content.text

\* lines 230-240: the text of a Word document, the placeholder, or the error
\* message
extract_text_from_docx(content, HAS_DOCX) ==
    IF ~HAS_DOCX THEN DocxRequires
    ELSE IF content.parse_raises THEN DocxError \o content.e \o << "]" >>
    ELSE content.text

\* lines 243-267: the text of a spreadsheet, the placeholder, or the error
\* message
extract_text_from_xlsx(content, HAS_OPENPYXL) ==
    IF ~HAS_OPENPYXL THEN XlsxRequires
    ELSE IF content.parse_raises THEN XlsxError \o content.e \o << "]" >>
    ELSE content.text

\* lines 270-321: None for a type that is not extractable and for a request
\* that raises; else the exported or decoded text, or what the parser of the
\* file's type returns
download_and_extract(item, has) ==
    IF item.mimeType \notin DOMAIN EXTRACTABLE_TYPES THEN None
    ELSE IF item.request_raises THEN None
    ELSE IF EXTRACTABLE_TYPES[item.mimeType] = "export"
         THEN Str(item.content.text)
    ELSE IF item.mimeType = "application/pdf"
         THEN Str(extract_text_from_pdf(item.content, has.HAS_PYMUPDF))
    ELSE IF item.mimeType \in
              {"application/vnd.openxmlformats-officedocument.wordprocessingml.document",
               "application/msword"}
         THEN Str(extract_text_from_docx(item.content, has.HAS_DOCX))
    ELSE IF item.mimeType =
              "application/vnd.openxmlformats-officedocument.spreadsheetml.sheet"
         THEN Str(extract_text_from_xlsx(item.content, has.HAS_OPENPYXL))
    ELSE Str(item.content.text)

----------------------------------------------------------------------------
(* The scan of a Drive folder *)

\* the frame of export_gdrive_content at line 498, with the flags the module
\* set when it was imported (lines 41-61)
Export(max_depth, chunk_size, has) ==
    [ pc         |-> "export",
      max_depth  |-> max_depth,
      chunk_size |-> chunk_size,
      has        |-> has,
      stats      |-> [ files_processed |-> 0, files_extracted |-> 0,
                       total_chunks |-> 0, errors |-> 0 ],
      listed     |-> 0,
      children   |-> << >> ]

\* the frame of scan_and_extract(service, folder_id, folder_name, depth, ...)
Scan(folder_id, folder_name, depth) ==
    [ pc          |-> "enter",
      folder_id   |-> folder_id,
      folder_name |-> folder_name,
      depth       |-> depth,
      children    |-> << >>,
      item        |-> None,
      text        |-> None ]

\* the innermost call
Top == Max(DOMAIN frame)

\* one value stands for what generate_node_id() returns during a scan
ScanNodeId == "n_0000000a"

\* a file node that gets chunk nodes for a single chunk too
FileNodeAlwaysItems(item, chunks) ==
    [ id |-> ScanNodeId, name |-> item.name, type |-> "item",
      external |-> [ type |-> "gdrive:file", id |-> item.id ],
      rag |-> [ source |-> [ type |-> "google-drive", fileId |-> item.id,
                             fileName |-> item.name,
                             mimeType |-> item.mimeType ] ],
      items |-> create_chunk_nodes(chunks, item.name, item.id,
                                   [k \in 1..Len(chunks) |-> ScanNodeId]) ]

\* lines 419-449: the node of a file with its chunks; the icon, the times and
\* the url, which copy the listing and the clock, are left out
FileNode(item, chunks) ==
    LET source == [ type |-> "google-drive", fileId |-> item.id,
                    fileName |-> item.name, mimeType |-> item.mimeType ]
        external == [ type |-> "gdrive:file", id |-> item.id ]
    IN  IF Len(chunks) > 1
        THEN [ id |-> ScanNodeId, name |-> item.name, type |-> "item",
               external |-> external, rag |-> [ source |-> source ],
               items |-> create_chunk_nodes(chunks, item.name, item.id,
                                            [k \in 1..Len(chunks) |-> ScanNodeId]) ]
        ELSE IF Len(chunks) = 1
        THEN [ id |-> ScanNodeId, name |-> item.name, type |-> "item",
               external |-> external,
               rag |-> [ source |-> source, chunk |-> chunks[1] ],
               description |-> chunks[1].text ]
        ELSE [ id |-> ScanNodeId, name |-> item.name, type |-> "item",
               external |-> external, rag |-> [ source |-> source ] ]

\* lines 389-400: the node of a folder with extractable content
FolderNode(item, subchildren) ==
    [ id |-> ScanNodeId, name |-> item.name, type |-> "phase",
      external |-> [ type |-> "gdrive:folder", id |-> item.id ],
      children |-> subchildren ]

\* the innermost call of fr returns result: to line 499, or to lines 382-403,
\* where a folder node is appended if subchildren is not empty
Returning(fr, result) ==
    LET t == Max(DOMAIN fr)
    IN  IF t = 1
        THEN [c \in {0} |-> [fr[0] EXCEPT !.children = result, !.pc = "done"]]
        ELSE [c \in 0..t - 1 |->
                IF c = t - 1 /\ result # << >>
                THEN [fr[c] EXCEPT
                        !.children = Append(@, FolderNode(fr[c].item, result))]
                ELSE fr[c]]

\* the string of n characters ch
Rep(ch, n) == [k \in 1..n |-> ch]

\* texts of documents: near-empty, just above the threshold, and two
\* paragraphs that are together too long for one chunk of the smallest size
ScanTexts ==
    {Rep("a", NearEmpty), Rep("a", NearEmpty + 1),
     Rep("a", MIN_CHUNK_SIZE \div 2) \o << "\n", "\n" >>
         \o Rep("a", MIN_CHUNK_SIZE \div 2)}

\* messages of the exceptions of a parser: with the shortest of them the
\* error text stays at the threshold, with the other it passes it
ErrorMessages ==
    {Rep("e", NearEmpty - Len(PdfError) - 1), Rep("e", NearEmpty - Len(PdfError))}

\* what a request for a file's content gives, and what its parser does with it
Contents ==
    {[parse_raises |-> FALSE, text |-> t, e |-> << >>] : t \in ScanTexts}
    \cup {[parse_raises |-> TRUE, text |-> << >>, e |-> e] : e \in ErrorMessages}

\* the files of a listing: a Google Doc, a PDF, a plain text
FileItems ==
    {[mimeType |-> "application/vnd.google-apps.document", name |-> "doc",
      id |-> "id_doc", request_raises |-> r, content |-> c] :
        r \in BOOLEAN, c \in {c \in Contents : ~c.parse_raises}}
    \cup {[mimeType |-> "application/pdf", name |-> "pdf",
           id |-> "id_pdf", request_raises |-> r, content |-> c] :
             r \in BOOLEAN, c \in Contents}
    \cup {[mimeType |-> "text/plain", name |-> "txt",
           id |-> "id_txt", request_raises |-> r, content |-> c] :
             r \in BOOLEAN, c \in {c \in Contents : ~c.parse_raises}}

\* a file of a type that is not extractable
OtherItem == [mimeType |-> "image/png", name |-> "png", id |-> "id_png"]

\* a subfolder
FolderItem ==
    [mimeType |-> "application/vnd.google-apps.folder", name |-> "dir",
     id |-> "id_dir"]

\* the settings of the optional libraries
Libraries ==
    [HAS_PYMUPDF : BOOLEAN, HAS_DOCX : {TRUE}, HAS_OPENPYXL : {TRUE}]

\* lines 411-415: the text of a file, whether it passes the threshold, and
\* its chunks if it does
Extract(item, has, chunk_size) ==
    LET text == download_and_extract(item, has)
        extracted == ~text.is_none /\ IsExtracted(text.str)
    IN  [ text      |-> text,
          extracted |-> extracted,
          chunks    |-> IF extracted THEN chunk_text(text.str, chunk_size).ret
                        ELSE << >> ]

\* Extract, tabulated for the files and the settings of the scan
Extracted ==
    {[item |-> item, has |-> has, x |-> Extract(item, has, MIN_CHUNK_SIZE)] :
        item \in FileItems, has \in Libraries}

\* counters that count a file as extracted before the threshold test
CountFileEarly(stats, extracted, chunks) ==
    [stats EXCEPT !.files_processed = @ + 1,
                  !.files_extracted = @ + 1,
                  !.total_chunks = IF extracted THEN @ + Len(chunks) ELSE @]

\* lines 408-416: the counters after one extractable file
CountFile(stats, extracted, chunks) ==
    IF extracted
    THEN [stats EXCEPT !.files_processed = @ + 1,
                       !.files_extracted = @ + 1,
                       !.total_chunks = @ + Len(chunks)]
    ELSE [stats EXCEPT !.files_processed = @ + 1]

\* line 499: the export calls scan_and_extract for the folder at depth 0
DoScan ==
    /\ DOMAIN frame = {0}
    /\ frame[0].pc = "export"
    /\ frame' = [c \in {0, 1} |->
                   IF c = 0 THEN [frame[0] EXCEPT !.pc = "scanning"]
                   ELSE Scan("root", "My Drive", 0)]

\* lines 361-377 and 460-463: the depth test and the listing of the folder;
\* a listing that raises is counted as an error and the call returns []
DoEnter ==
    /\ Top >= 1
    /\ frame[Top].pc = "enter"
    /\ IF frame[Top].depth > frame[0].max_depth
       THEN frame' = Returning(frame, << >>)
       ELSE \E raises \in BOOLEAN :
              IF raises
              THEN frame' = Returning(
                       [frame EXCEPT ![0].stats.errors = @ + 1], << >>)
              ELSE frame' = [frame EXCEPT ![Top].pc = "for_item"]

\* lines 379-386: the next item is a folder, which is scanned one level down
DoFolder ==
    /\ Top >= 1
    /\ frame[Top].pc = "for_item"
    /\ frame[0].listed < MaxListed
    /\ frame' = [c \in 0..Top + 1 |->
                   IF c = 0 THEN [frame[0] EXCEPT !.listed = @ + 1]
                   ELSE IF c = Top THEN [frame[Top] EXCEPT !.item = FolderItem]
                   ELSE IF c = Top + 1
                        THEN Scan(FolderItem.id, FolderItem.name,
                                  frame[Top].depth + 1)
                   ELSE frame[c]]

\* lines 406-453: the next item is a file of an extractable type
DoFile ==
    /\ Top >= 1
    /\ frame[Top].pc = "for_item"
    /\ frame[0].listed < MaxListed
    /\ \E item \in FileItems :
          LET x == (CHOOSE r \in Extracted :
                        r.item = item /\ r.has = frame[0].has).x
          IN  frame' = [frame EXCEPT
                          ![0].stats = CountFile(@, x.extracted, x.chunks),
                          ![0].listed = @ + 1,
                          ![Top].item = item,
                          ![Top].text = x.text,
                          ![Top].children =
                              IF x.extracted
                              THEN Append(@, FileNode(item, x.chunks))
                              ELSE @]

\* lines 454-456: the next item is a file of another type
DoOther ==
    /\ Top >= 1
    /\ frame[Top].pc = "for_item"
    /\ frame[0].listed < MaxListed
    /\ frame' = [frame EXCEPT ![0].listed = @ + 1, ![Top].item = OtherItem]

\* line 458: the listing has no more items
DoReturn ==
    /\ Top >= 1
    /\ frame[Top].pc = "for_item"
    /\ frame' = Returning(frame, frame[Top].children)

\* an export of any depth, at the smallest chunk size, with or without PyMuPDF
InitScan ==
    \E max_depth \in (-1)..MaxDepthArg, has \in Libraries :
        frame = [c \in {0} |-> Export(max_depth, MIN_CHUNK_SIZE, has)]

NextScan ==
    \/ DoScan
    \/ DoEnter
    \/ DoFolder
    \/ DoFile
    \/ DoOther
    \/ DoReturn

SpecScan == InitScan /\ [][NextScan]_vars

----------------------------------------------------------------------------
(* The Drive metadata export, src/export_google_drive_to_treelisty.py:      *)
(* fetch_drive_files.  The frame of fetch_drive_files is frame[2], the      *)
(* Drive service it talks to is frame[3].                                   *)

MaxPages == 3
MaxPageSize == 2

\* line 167: the mime type of a folder
FOLDER == "application/vnd.google-apps.folder"

\* the id the Drive gives its j-th file
FileId(j) == << "f" >> \o Decimal(j)

\* one record of the 'files' list of a response
DriveFile(id, mimeType, parents) ==
    [id |-> id, name |-> id, mimeType |-> mimeType, parents |-> parents]

\* a nextPageToken: the place the next page starts at
Token(k) == [is_none |-> FALSE, page |-> k]

\* the Drive service: the pages its listing is served in
Service(pages) == [pc |-> "service", pages |-> pages]

\* lines 112-117: the response to files().list(pageToken = page_token)
list(service, page_token) ==
    LET k == IF page_token.is_none THEN 1 ELSE page_token.page
    IN  [files |-> service.pages[k],
         nextPageToken |-> IF k < Len(service.pages) THEN Token(k + 1)
                           ELSE None]

\* lines 107-108: the locals of fetch_drive_files at the head of its loop
Fetch == [pc |-> "while", all_files |-> << >>, page_token |-> None,
          error |-> None, ret |-> None]

\* an HttpError that hands back what was fetched so far
FetchHttpErrorKeeping(f) ==
    [f EXCEPT !.pc = "done", !.error = Str("HttpError"), !.ret = f.all_files]

\* lines 128-130: HttpError, return []
FetchHttpError(f) ==
    [f EXCEPT !.pc = "done", !.error = Str("HttpError"), !.ret = << >>]

\* an exception that is no HttpError leaves the function
FetchRaised(f) == [f EXCEPT !.pc = "raised"]

\* lines 119-126 and 132-133: one page received
FetchPage(f, results) ==
    LET all == f.all_files \o results.files
    IN  IF results.nextPageToken.is_none
        THEN [f EXCEPT !.all_files = all, !.page_token = None,
                       !.pc = "done", !.ret = all]
        ELSE [f EXCEPT !.all_files = all,
                       !.page_token = results.nextPageToken]

\* lines 110-130: one pass of the loop, the request answered or failing; in
\* an export process the loop runs while the process lives
DoList ==
    /\ 2 \in DOMAIN frame
    /\ frame[2].pc = "while"
    /\ 1 \in DOMAIN frame => frame[1].pc = "fetch"
    /\ \E outcome \in {"ok", "HttpError", "error"} :
           frame' = [frame EXCEPT ![2] =
               IF outcome = "ok"
               THEN FetchPage(frame[2], list(frame[3], frame[2].page_token))
               ELSE IF outcome = "HttpError" THEN FetchHttpError(frame[2])
               ELSE FetchRaised(frame[2])]

\* the first n files of a flat Drive
FlatFiles(n) == [j \in 1..n |-> DriveFile(FileId(j), "text/plain", << >>)]

\* the sum of the first k page sizes
RECURSIVE SizesUpTo(_, _)
SizesUpTo(sizes, k) == IF k = 0 THEN 0 ELSE sizes[k] + SizesUpTo(sizes, k - 1)

\* the listings of a Drive: one to MaxPages pages of at most MaxPageSize files
Listings ==
    {[k \in DOMAIN sizes |->
         SubSeq(FlatFiles(SizesUpTo(sizes, Cardinality(DOMAIN sizes))),
                SizesUpTo(sizes, k - 1) + 1, SizesUpTo(sizes, k))]
        : sizes \in UNION {[1..n -> 0..MaxPageSize] : n \in 1..MaxPages}}

\* one invocation of fetch_drive_files on a Drive with any of the listings
InitFetch ==
    \E pages \in Listings :
        frame = [c \in {2, 3} |-> IF c = 2 THEN Fetch ELSE Service(pages)]

NextFetch == DoList

SpecFetch == InitFetch /\ [][NextFetch]_vars

\* the interpreter keeps running the loop
SpecFetchFair == InitFetch /\ [][NextFetch]_vars /\ WF_vars(NextFetch)

----------------------------------------------------------------------------
(* convert_to_treelisty.  Of a node the model keeps the keys the tree is    *)
(* navigated by (id, name, type, subtasks, items, children); the other     *)
(* keys are copies of the file's metadata.                                  *)

MaxDriveFiles == 4

\* lines 163 and 233: the default of max_depth, which main passes on line 325
DEFAULT_MAX_DEPTH == 3

\* line 217: at most 20 children of a folder become subtasks
SUBTASK_LIMIT == 20

\* line 245: at most 10 top-level folders become phases
PHASE_LIMIT == 10

\* lines 250 and 273: at most 50 items in a phase
ITEM_LIMIT == 50

\* line 260: f'p{idx}'
PhaseId(idx) == << "p" >> \o Decimal(idx)

\* line 198: f'p{phase_idx}-{item_idx}'
ItemId(phase_idx, item_idx) ==
    << "p" >> \o Decimal(phase_idx) \o << "-" >> \o Decimal(item_idx)

\* line 224: f'p{phase_idx}-{item_idx}-{idx}'
SubtaskId(phase_idx, item_idx, idx) ==
    ItemId(phase_idx, item_idx) \o << "-" >> \o Decimal(idx)

\* list[:n]
Take(s, n) == SubSeq(s, 1, Min({n, Len(s)}))

\* line 140: file_map[id], the last file of that id
file_map(files, id) == files[Max({k \in 1..Len(files) : files[k].id = id})]

\* lines 144-150: children_map.get(id, []), the ids of the files whose first
\* parent is id, in the order of the list
children_map(files, id) ==
    LET children == SelectSeq(files, LAMBDA f :
                        f.parents # << >> /\ f.parents[1] = id)
    IN  [k \in 1..Len(children) |-> children[k].id]

\* lines 153-157: the files without parents
root_files(files) == SelectSeq(files, LAMBDA f : f.parents = << >>)

\* node[key] = value
WithKey(node, key, value) ==
    [k \in DOMAIN node \cup {key} |-> IF k = key THEN value ELSE node[k]]

\* lines 163-231: the node of a file; every child id of children_map is the
\* id of a file of the list, so line 218 holds for each of them
RECURSIVE file_to_treelisty_node(_, _, _, _, _, _)
file_to_treelisty_node(file, files, depth, max_depth, phase_idx, item_idx) ==
    LET node == [id |-> ItemId(phase_idx, item_idx), name |-> file.name]
        child_ids == Take(children_map(files, file.id), SUBTASK_LIMIT)
        subtasks ==
            [k \in 1..Len(child_ids) |->
                WithKey(WithKey(file_to_treelisty_node(
                                    file_map(files, child_ids[k]), files,
                                    depth + 1, max_depth, phase_idx, k - 1),
                                "id", SubtaskId(phase_idx, item_idx, k - 1)),
                        "type", "subtask")]
    IN  IF file.mimeType = FOLDER /\ depth < max_depth /\ child_ids # << >>
        THEN WithKey(node, "subtasks", subtasks)
        ELSE node

\* lines 233-307: the tree of a list of files
convert_to_treelisty(files, max_depth) ==
    LET roots == root_files(files)
        folders == SelectSeq(roots, LAMBDA f : f.mimeType = FOLDER)
        other_files == SelectSeq(roots, LAMBDA f : f.mimeType # FOLDER)
        folder_phases ==
            [p \in 1..Len(Take(folders, PHASE_LIMIT)) |->
                LET child_ids == Take(children_map(files, folders[p].id),
                                      ITEM_LIMIT)
                IN  [id |-> PhaseId(p - 1),
                     name |-> folders[p].name,
                     phase |-> p - 1,
                     items |-> [k \in 1..Len(child_ids) |->
                         file_to_treelisty_node(
                             file_map(files, child_ids[k]), files,
                             1, max_depth, p - 1, k - 1)]]]
        phase_idx == Len(folder_phases)
        rest == Take(other_files, ITEM_LIMIT)
        phases ==
            IF other_files = << >> THEN folder_phases
            ELSE Append(folder_phases,
                     [id |-> PhaseId(phase_idx),
                      name |-> << "R", "o", "o", "t", " ",
                                  "F", "i", "l", "e", "s" >>,
                      phase |-> phase_idx,
                      items |-> [k \in 1..Len(rest) |->
                          file_to_treelisty_node(rest[k], files, 0, max_depth,
                                                 phase_idx, k - 1)]])
    IN  [id |-> << "r", "o", "o", "t" >>,
         name |-> << "M", "y", " ", "G", "o", "o", "g", "l", "e", " ",
                     "D", "r", "i", "v", "e" >>,
         children |-> phases]

\* the locals of a call of convert_to_treelisty
Convert(files, max_depth) ==
    [pc |-> "convert", files |-> files, max_depth |-> max_depth, ret |-> None]

\* lines 233-307: the call returns the tree
DoConvert ==
    /\ 0 \in DOMAIN frame
    /\ frame[0].pc = "convert"
    /\ frame' = [frame EXCEPT ![0].pc = "done",
                     ![0].ret = convert_to_treelisty(frame[0].files,
                                                     frame[0].max_depth)]

\* the id of a parent the list does not hold: the root of My Drive
RootId == << "r", "o", "o", "t" >>

\* the file lists the API returns: a file's parent is an earlier file of the
\* list, or My Drive, or it has none
Hierarchies ==
    UNION {{[j \in 1..n |-> DriveFile(FileId(j), shape[j][1], shape[j][2])] :
              shape \in {s \in [1..n -> {FOLDER, "text/plain"}
                                    \X ({<< >>, << RootId >>}
                                        \cup {<< FileId(i) >> : i \in 1..n})] :
                            \A j \in 1..n : \A i \in j..n :
                                s[j][2] # << FileId(i) >>}}
           : n \in 1..MaxDriveFiles}

\* one call on any of the file lists, with any depth up to the default
InitConvert ==
    \E files \in Hierarchies, max_depth \in 0..DEFAULT_MAX_DEPTH :
        frame = [c \in {0} |-> Convert(files, max_depth)]

NextConvert == DoConvert

SpecConvert == InitConvert /\ [][NextConvert]_vars

----------------------------------------------------------------------------
(* The refresh server, src/treelisty_server.py, and the export it runs,     *)
(* main of src/export_google_drive_to_treelisty.py.  frame[0] is the        *)
(* handler of POST /refresh-google-drive, frame[1] the process of the       *)
(* export script, frame[2] and frame[3] its fetch_drive_files and Drive     *)
(* service, frame[4] the working directory.                                 *)

MaxSyncDepth == 4

\* treelisty_server.py line 48: the depth of a request without syncDepth
SYNC_DEPTH_DEFAULT == 10

\* the 'source' of a request body: a dict with or without syncDepth; a body
\* without 'source' gives the empty dict (line 45)
Sources == {<< >>} \cup {[syncDepth |-> d] : d \in 1..MaxSyncDepth}

\* line 48: source_metadata.get('syncDepth', 10)
sync_depth_of(source) ==
    IF "syncDepth" \in DOMAIN source THEN source.syncDepth
    ELSE SYNC_DEPTH_DEFAULT

\* lines 44-50: the handler with its request read
Refresh(source) ==
    [pc |-> "run", source_metadata |-> source,
     sync_depth |-> sync_depth_of(source), response |-> None]

\* the working directory: its google-drive-*.json files and the time
Directory(json_files, clock) ==
    [pc |-> "cwd", json_files |-> json_files, clock |-> clock]

\* a file google-drive-treelisty-{timestamp}.json written at a time
JsonFile(time, data) == [name |-> time, mtime |-> time, data |-> data]

\* lines 61-68: the process python export_google_drive_to_treelisty.py
\* str(sync_depth)
Process(sync_depth) ==
    [pc |-> "import",
     argv |-> << "export_google_drive_to_treelisty.py", Decimal(sync_depth) >>,
     files |-> << >>, max_depth |-> None, treelisty_data |-> None,
     e |-> None, returncode |-> None]

\* the process ends with a return code
Exited(p, returncode) == [p EXCEPT !.pc = "exited", !.returncode = returncode]

\* export main, lines 343-346: the exception is printed, main returns and
\* the process ends normally
Caught(p, e) == Exited([p EXCEPT !.e = Str(e)], 0)

\* lines 72-75, 82-85, 111-114 and 117-120: an answer of failure
Failure(status) == [success |-> FALSE, status |-> status]

\* lines 102-108: the answer that carries a file
Success(file) ==
    [success |-> TRUE, status |-> 200, filename |-> file.name,
     modified |-> file.mtime, data |-> file.data]

\* line 88: max(json_files, key = os.path.getmtime)
latest_file(json_files) ==
    CHOOSE f \in json_files : \A g \in json_files : g.mtime <= f.mtime

\* lines 70-108: the answer after the process has ended
Respond(result, directory) ==
    IF result.returncode # 0 THEN Failure(500)
    ELSE IF directory.json_files = {} THEN Failure(404)
    ELSE Success(latest_file(directory.json_files))

\* lines 61-68: subprocess.run starts the script, or raises (no python)
DoRun ==
    /\ 0 \in DOMAIN frame
    /\ frame[0].pc = "run"
    /\ \/ frame' = [c \in DOMAIN frame \cup {1} |->
                       IF c = 0 THEN [frame[0] EXCEPT !.pc = "wait"]
                       ELSE IF c = 1 THEN Process(frame[0].sync_depth)
                       ELSE frame[c]]
       \/ frame' = [frame EXCEPT ![0].pc = "responded",
                                 ![0].response = Failure(500)]

\* lines 17-24 and 348-349 of the script: the imports, then main is called;
\* an import that fails ends the process with return code 1
DoImport ==
    /\ 1 \in DOMAIN frame
    /\ frame[1].pc = "import"
    /\ \/ frame' = [frame EXCEPT ![1].pc = "get_service"]
       \/ frame' = [frame EXCEPT ![1] = Exited(frame[1], 1)]

\* line 315: get_drive_service returns the service of a Drive, or raises
DoGetService ==
    /\ 1 \in DOMAIN frame
    /\ frame[1].pc = "get_service"
    /\ \/ \E pages \in Listings :
              frame' = [c \in DOMAIN frame \cup {2, 3} |->
                           IF c = 1 THEN [frame[1] EXCEPT !.pc = "fetch"]
                           ELSE IF c = 2 THEN Fetch
                           ELSE IF c = 3 THEN Service(pages)
                           ELSE frame[c]]
       \/ frame' = [frame EXCEPT ![1] = Caught(frame[1], "auth")]

\* lines 318-322: fetch_drive_files has returned or raised
DoFetched ==
    /\ 1 \in DOMAIN frame
    /\ frame[1].pc = "fetch"
    /\ frame[2].pc \in {"done", "raised"}
    /\ frame' = [frame EXCEPT ![1] =
           IF frame[2].pc = "raised" THEN Caught(frame[1], "fetch")
           ELSE IF frame[2].ret = << >>
                THEN Exited([frame[1] EXCEPT !.files = << >>], 0)
           ELSE [frame[1] EXCEPT !.files = frame[2].ret, !.pc = "convert"]]

\* line 325: convert_to_treelisty(files, max_depth=3) returns or raises
DoConvertCall ==
    /\ 1 \in DOMAIN frame
    /\ frame[1].pc = "convert"
    /\ \/ frame' = [frame EXCEPT
                        ![1].max_depth = DEFAULT_MAX_DEPTH,
                        ![1].treelisty_data =
                            convert_to_treelisty(frame[1].files,
                                                 DEFAULT_MAX_DEPTH),
                        ![1].pc = "save"]
       \/ frame' = [frame EXCEPT ![1] = Caught(frame[1], "convert")]

\* lines 328-341: the tree is written to a file named by the time, or
\* opening the file raises
DoSave ==
    /\ 1 \in DOMAIN frame
    /\ frame[1].pc = "save"
    /\ \/ frame' = [frame EXCEPT
                        ![1] = Exited(frame[1], 0),
                        ![4].json_files = frame[4].json_files \cup
                            {JsonFile(frame[4].clock,
                                      frame[1].treelisty_data)}]
       \/ frame' = [frame EXCEPT ![1] = Caught(frame[1], "save")]

\* lines 67 and 110-114: the process is killed after five minutes
DoTimeout ==
    /\ 1 \in DOMAIN frame
    /\ frame[0].pc = "wait"
    /\ frame[1].pc \notin {"exited", "killed"}
    /\ frame' = [frame EXCEPT ![1].pc = "killed",
                              ![0].pc = "responded",
                              ![0].response = Failure(500)]

\* lines 70-108: the process has ended, the handler answers
DoRespond ==
    /\ 1 \in DOMAIN frame
    /\ frame[0].pc = "wait"
    /\ frame[1].pc = "exited"
    /\ frame' = [frame EXCEPT ![0].pc = "responded",
                              ![0].response = Respond(frame[1], frame[4])]

\* the time of an earlier export and the time of the request
EarlierTime == 1
RequestTime == 2

\* the tree an earlier export has left in the working directory
EarlierExport ==
    JsonFile(EarlierTime, convert_to_treelisty(FlatFiles(1), DEFAULT_MAX_DEPTH))

\* one request, with any source, in a directory with or without the file of
\* an earlier export
InitRefresh ==
    \E source \in Sources, json_files \in {{}, {EarlierExport}} :
        frame = [c \in {0, 4} |->
                    IF c = 0 THEN Refresh(source)
                    ELSE Directory(json_files, RequestTime)]

NextRefresh ==
    \/ DoRun
    \/ DoImport
    \/ DoGetService
    \/ DoList
    \/ DoFetched
    \/ DoConvertCall
    \/ DoSave
    \/ DoTimeout
    \/ DoRespond

SpecRefresh == InitRefresh /\ [][NextRefresh]_vars

----------------------------------------------------------------------------
(* The calendar export, src/export_gcalendar_to_treelisty.py.  A date is    *)
(* its proleptic Gregorian ordinal, the number datetime.date compares and   *)
(* adds days by; the strings of dates are parsed and formatted digit by     *)
(* digit.                                                                   *)

MaxTodays == 7
MaxMarchDay == 15
MaxEvents == 2

\* a year with a 29th of February
IsLeap(y) == y % 4 = 0 /\ (y % 100 # 0 \/ y % 400 = 0)

\* the days of month m of year y
DaysInMonth(y, m) ==
    IF m = 2 THEN (IF IsLeap(y) THEN 29 ELSE 28)
    ELSE IF m \in {4, 6, 9, 11} THEN 30
    ELSE 31

\* the days of year y before its month m
RECURSIVE DaysBeforeMonth(_, _)
DaysBeforeMonth(y, m) ==
    IF m = 1 THEN 0
    ELSE DaysBeforeMonth(y, m - 1) + DaysInMonth(y, m - 1)

\* date(y, m, d).toordinal(): 1 is the first of January of year 1
toordinal(y, m, d) ==
    LET py == y - 1
    IN  py * 365 + py \div 4 - py \div 100 + py \div 400
        + DaysBeforeMonth(y, m) + d

\* date.weekday(): 0 is Monday, 6 is Sunday
weekday(date) == (date + 6) % 7

\* a character is a decimal digit
IsDigit(ch) == ch \in {"0", "1", "2", "3", "4", "5", "6", "7", "8", "9"}

\* int() of a string of digits
RECURSIVE ParseInt(_)
ParseInt(ds) ==
    IF ds = << >> THEN 0
    ELSE 10 * ParseInt(SubSeq(ds, 1, Len(ds) - 1))
         + (CHOOSE d \in 0..9 : Digit(d) = ds[Len(ds)])

\* {n:0w}: the decimal digits of n, padded with zeros to the width w
RECURSIVE Padded(_, _)
Padded(n, w) ==
    IF w = 0 THEN << >> ELSE Padded(n \div 10, w - 1) \o << Digit(n % 10) >>

\* the string YYYY-MM-DD of a date
isoformat(y, m, d) ==
    Padded(y, 4) \o << "-" >> \o Padded(m, 2) \o << "-" >> \o Padded(d, 2)

\* the failure of strptime
ValueError == [ok |-> FALSE]

\* line 202: datetime.strptime(s, '%Y-%m-%d').date(), for a string of ten
\* characters: the date, or ValueError when s does not name a day
strptime(s) ==
    IF /\ Len(s) = 10
       /\ s[5] = "-" /\ s[8] = "-"
       /\ \A k \in {1, 2, 3, 4, 6, 7, 9, 10} : IsDigit(s[k])
    THEN LET y == ParseInt(SubSeq(s, 1, 4))
             m == ParseInt(SubSeq(s, 6, 7))
             d == ParseInt(SubSeq(s, 9, 10))
         IN  IF y >= 1 /\ m \in 1..12 /\ d \in 1..DaysInMonth(y, m)
             THEN [ok |-> TRUE, date |-> toordinal(y, m, d)]
             ELSE ValueError
    ELSE ValueError

\* a week that is taken to end on the Monday after
end_of_week_monday(today) == today + (7 - weekday(today))

\* line 208: the Sunday of the current week
end_of_week(today) == today + (6 - weekday(today))

\* lines 209-210: the Sunday of the following week
end_of_next_week(today) == (end_of_week(today) + 1) + 6

\* the locals of a call of categorize_event
Categorize(event_node, today) ==
    [pc |-> "categorize", event_node |-> event_node, today |-> today,
     start_date |-> None, ret |-> None]

\* lines 195-223: the call at its return
Categorized(f) ==
    LET start_date_str == f.event_node.startDate
        parsed == strptime(start_date_str)
        start_date == parsed.date
        today == f.today
        tomorrow == today + 1
    IN  IF start_date_str = << >> \/ ~parsed.ok
        THEN [f EXCEPT !.pc = "done", !.ret = "other"]
        ELSE [f EXCEPT !.pc = "done", !.start_date = start_date, !.ret =
                 IF start_date < today THEN "past"
                 ELSE IF start_date = today THEN "today"
                 ELSE IF start_date = tomorrow THEN "tomorrow"
                 ELSE IF start_date <= end_of_week(today) THEN "this_week"
                 ELSE IF start_date <= end_of_next_week(today)
                      THEN "next_week"
                 ELSE "later"]

\* lines 195-223: the group of an event node
categorize_event(event_node, today) ==
    Categorized(Categorize(event_node, today)).ret

\* a call of categorize_event returns
DoCategorize ==
    \E c \in DOMAIN frame :
        /\ frame[c].pc = "categorize"
        /\ frame' = [frame EXCEPT ![c] = Categorized(frame[c])]

\* the days today is taken from: a week of February 2024
Todays == {toordinal(2024, 2, 21 + k) : k \in 1..MaxTodays}

\* the days events start on, from before that week to after the week that
\* follows it
StartDays ==
    {<< 2024, 2, d >> : d \in 20..29}
        \cup {<< 2024, 3, d >> : d \in 1..MaxMarchDay}

\* the values of startDate: the strings of these days, the string of a day
\* that does not exist, and the empty string
StartDates ==
    {isoformat(ymd[1], ymd[2], ymd[3]) : ymd \in StartDays}
        \cup {isoformat(2024, 2, 30), << >>}

\* two calls for two event nodes on the same day
InitCategorize ==
    \E today \in Todays, s1 \in StartDates, s2 \in StartDates :
        frame = [c \in {0, 1} |->
                    Categorize([startDate |-> IF c = 0 THEN s1 ELSE s2],
                               today)]

NextCategorize == DoCategorize

SpecCategorize == InitCategorize /\ [][NextCategorize]_vars

----------------------------------------------------------------------------
(* export_calendar: frame[0] is the call, frame[1] the calendar service.    *)

\* list[:n] of a string
Prefix(s, n) == SubSeq(s, 1, Min({n, Len(s)}))

\* lines 123-192: the node of an event, with the keys the grouping reads
parse_event(event) ==
    LET start == event.start
        is_all_day == "date" \in DOMAIN start
        start_datetime ==
            IF is_all_day
            THEN start.date \o << "T", "0", "0", ":", "0", "0", ":", "0", "0" >>
            ELSE IF "dateTime" \in DOMAIN start THEN start.dateTime
            ELSE << >>
        start_date ==
            IF is_all_day THEN start.date ELSE Prefix(start_datetime, 10)
    IN  [id |-> << "e", "v", "t", "_" >> \o Prefix(event.id, 8),
         type |-> "item",
         eventId |-> event.id,
         startDateTime |-> start_datetime,
         startDate |-> start_date,
         isAllDay |-> is_all_day]

\* line 301: the groups that become phases, in the order of the tree
PhaseKeys == << "today", "tomorrow", "this_week", "next_week", "later",
                "past" >>

\* lines 278-285: the phases, all empty
EmptyPhases == [key \in {PhaseKeys[k] : k \in 1..Len(PhaseKeys)} |-> << >>]

\* lines 245-248: the call of export_calendar before it asks for the events
ExportCalendar(today) ==
    [pc |-> "fetch", today |-> today, events |-> << >>, i |-> 0,
     phases |-> EmptyPhases, children |-> << >>, ret |-> None]

\* the calendar service and the events it lists
Calendar(items) == [pc |-> "calendar", items |-> items]

\* lines 253-268: the events are listed, or the request fails and the
\* function returns
DoFetchEvents ==
    /\ 0 \in DOMAIN frame
    /\ frame[0].pc = "fetch"
    /\ \/ frame' = [frame EXCEPT ![0].events = frame[1].items,
                                 ![0].pc = "for_event"]
       \/ frame' = [frame EXCEPT ![0].pc = "done"]

\* lines 288-295: one pass of the loop over the events
DoEvent ==
    /\ 0 \in DOMAIN frame
    /\ frame[0].pc = "for_event"
    /\ frame[0].i < Len(frame[0].events)
    /\ LET event_node == parse_event(frame[0].events[frame[0].i + 1])
           category == categorize_event(event_node, frame[0].today)
       IN  frame' = [frame EXCEPT
               ![0].i = frame[0].i + 1,
               ![0].phases =
                   IF category \in DOMAIN frame[0].phases
                   THEN [frame[0].phases EXCEPT
                            ![category] = Append(@, event_node)]
                   ELSE frame[0].phases]

\* lines 300-311: the phases with items, in the order of PhaseKeys; the id
\* f'phase-{phase_key}' is kept as its two parts
RECURSIVE Children(_, _)
Children(phases, k) ==
    IF k > Len(PhaseKeys) THEN << >>
    ELSE (IF phases[PhaseKeys[k]] # << >>
          THEN << [id |-> << "phase-", PhaseKeys[k] >>,
                   type |-> "phase",
                   items |-> phases[PhaseKeys[k]]] >>
          ELSE << >>)
         \o Children(phases, k + 1)

\* lines 299-361: the loop is over, the tree is built and written
DoBuild ==
    /\ 0 \in DOMAIN frame
    /\ frame[0].pc = "for_event"
    /\ frame[0].i = Len(frame[0].events)
    /\ frame' = [frame EXCEPT
           ![0].children = Children(frame[0].phases, 1),
           ![0].ret = Str(<< "g", "c", "a", "l" >>),
           ![0].pc = "done"]

\* the days the listed events start on
EventDays == {<< 2024, 2, 21 >>, << 2024, 2, 29 >>, << 2024, 3, 1 >>,
              << 2024, 3, 12 >>}

\* the 'start' of a listed event: an all-day date, a time of a day, or none
EventStarts ==
    {[date |-> isoformat(ymd[1], ymd[2], ymd[3])] : ymd \in EventDays}
        \cup {[dateTime |-> isoformat(ymd[1], ymd[2], ymd[3])
                   \o << "T", "1", "0", ":", "0", "0", ":", "0", "0", "Z" >>]
                 : ymd \in EventDays}
        \cup {<< >>}

\* the lists of at most MaxEvents events
EventLists ==
    UNION {{[k \in 1..n |-> [id |-> << "e" >> \o Decimal(k),
                             start |-> starts[k]]]
              : starts \in [1..n -> EventStarts]}
           : n \in 0..MaxEvents}

\* one export on any of the days, of any of the lists
InitCalendar ==
    \E today \in Todays, items \in EventLists :
        frame = [c \in {0, 1} |->
                    IF c = 0 THEN ExportCalendar(today) ELSE Calendar(items)]

NextCalendar ==
    \/ DoFetchEvents
    \/ DoEvent
    \/ DoBuild

SpecCalendar == InitCalendar /\ [][NextCalendar]_vars

----------------------------------------------------------------------------
(* The local folder export, src/export_local_folder_to_treelisty.py:        *)
(* extract_content and the module's extraction_stats.  frame[0] is the      *)
(* module, frame[1] the latest call of extract_content.  A text is kept as  *)
(* its length.                                                              *)

MaxCalls == 3

\* line 164: the default of max_size_kb
MAX_SIZE_KB == 100

\* lines 50-57: the extensions content is extracted for
EXTRACTABLE_EXTENSIONS == {".pdf", ".docx", ".txt", ".md", ".csv", ".json"}

\* a text of n characters
Text(n) == [is_none |-> FALSE, len |-> n]

\* lines 60-66: the module after its import
Module(HAS_PYPDF2) ==
    [pc |-> "module", HAS_PYPDF2 |-> HAS_PYPDF2,
     extraction_stats |-> [attempted |-> 0, succeeded |-> 0, failed |-> 0,
                           skipped |-> 0, total_chars |-> 0]]

\* lines 164-175: a call of extract_content
ExtractContent(file_path, max_size_kb) ==
    [pc |-> "attempt", file_path |-> file_path, max_size_kb |-> max_size_kb,
     ret |-> None]

\* stats[key] += n
Count(stats, key, n) == [stats EXCEPT ![key] = @ + n]

\* a file that is too large and is not counted
TooLargeUncounted(stats) == stats

\* line 187: a file that is too large is counted as skipped
TooLarge(stats) == Count(stats, "skipped", 1)

\* lines 105-161: what the extractor of the file's type returns, text and
\* error; reading a file gives its text, or fails with a message, which may
\* be the empty string
extract_text(file_path, HAS_PYPDF2) ==
    IF file_path.ext = ".pdf" /\ ~HAS_PYPDF2
    THEN [text |-> None, error |-> Str("PyPDF2 not installed")]
    ELSE IF file_path.read.is_none
         THEN [text |-> Text(file_path.chars), error |-> None]
    ELSE [text |-> None, error |-> file_path.read]

\* lines 207-209: the length of the text returned
Truncated(len, max_size_kb) ==
    LET max_chars == max_size_kb * 1024
        note == << "\n", "\n" >> \o
                << "[", "T", "r", "u", "n", "c", "a", "t", "e", "d", " ",
                   "a", "t", " " >> \o Decimal(max_size_kb) \o
                << "K", "B", "]" >>
    IN  IF len > 0 /\ len > max_chars THEN max_chars + Len(note) ELSE len

\* the process calls extract_content for a file
DoCall ==
    /\ 1 \in DOMAIN frame => frame[1].pc = "done"
    /\ frame[0].extraction_stats.attempted < MaxCalls
    /\ \E ext \in {".pdf", ".docx", ".txt", ".exe"},
          size \in {Text(0), Text(MAX_SIZE_KB * 1024 * 10 + 1), None},
          chars \in {0, 1, MAX_SIZE_KB * 1024 + 1},
          read \in {None, Str(""), Str("Permission denied")} :
           frame' = [c \in {0, 1} |->
               IF c = 0 THEN frame[0]
               ELSE ExtractContent([ext |-> ext, st_size |-> size,
                                    chars |-> chars, read |-> read],
                                   MAX_SIZE_KB)]

\* line 176
DoAttempt ==
    /\ 1 \in DOMAIN frame
    /\ frame[1].pc = "attempt"
    /\ frame' = [frame EXCEPT
           ![0].extraction_stats =
               Count(frame[0].extraction_stats, "attempted", 1),
           ![1].pc = "check_type"]

\* lines 178-181
DoCheckType ==
    /\ 1 \in DOMAIN frame
    /\ frame[1].pc = "check_type"
    /\ IF frame[1].file_path.ext \notin EXTRACTABLE_EXTENSIONS
       THEN frame' = [frame EXCEPT
                ![0].extraction_stats =
                    Count(frame[0].extraction_stats, "skipped", 1),
                ![1].pc = "done",
                ![1].ret = [text |-> None, error |-> Str("Unsupported type")]]
       ELSE frame' = [frame EXCEPT ![1].pc = "check_size"]

\* lines 184-190: stat() gives the size, or raises and the check is passed
DoCheckSize ==
    /\ 1 \in DOMAIN frame
    /\ frame[1].pc = "check_size"
    /\ LET st_size == frame[1].file_path.st_size
       IN  IF ~st_size.is_none
              /\ st_size.len > frame[1].max_size_kb * 1024 * 10
           THEN frame' = [frame EXCEPT
                    ![0].extraction_stats = TooLarge(frame[0].extraction_stats),
                    ![1].pc = "done",
                    ![1].ret = [text |-> None,
                                error |-> Str("File too large")]]
           ELSE frame' = [frame EXCEPT ![1].pc = "extract"]

\* lines 192-217: the extractor is called and its result counted
DoExtractContent ==
    /\ 1 \in DOMAIN frame
    /\ frame[1].pc = "extract"
    /\ LET r == extract_text(frame[1].file_path, frame[0].HAS_PYPDF2)
           stats == frame[0].extraction_stats
       IN  IF ~r.error.is_none /\ r.error.str # ""
           THEN frame' = [frame EXCEPT
                    ![0].extraction_stats = Count(stats, "failed", 1),
                    ![1].pc = "done",
                    ![1].ret = [text |-> None, error |-> r.error]]
           ELSE IF r.text.is_none
           THEN frame' = [frame EXCEPT
                    ![0].extraction_stats = Count(stats, "succeeded", 1),
                    ![1].pc = "done",
                    ![1].ret = [text |-> None, error |-> None]]
           ELSE LET len == Truncated(r.text.len, frame[1].max_size_kb)
                IN  frame' = [frame EXCEPT
                        ![0].extraction_stats =
                            Count(Count(stats, "succeeded", 1),
                                  "total_chars", len),
                        ![1].pc = "done",
                        ![1].ret = [text |-> Text(len), error |-> None]]

\* the process after the import of the module, with or without PyPDF2
InitLocal ==
    \E HAS_PYPDF2 \in BOOLEAN : frame = [c \in {0} |-> Module(HAS_PYPDF2)]

NextLocal ==
    \/ DoCall
    \/ DoAttempt
    \/ DoCheckType
    \/ DoCheckSize
    \/ DoExtractContent

SpecLocal == InitLocal /\ [][NextLocal]_vars

\* the interpreter keeps running an invocation that has not finished
SpecFair == InitFair /\ [][Next]_vars /\ WF_vars(Next)

----------------------------------------------------------------------------
(* Vocabulary of the properties *)

\* invocation c has returned
Returned(c) == frame[c].pc = "done"

\* the argument text is empty or whitespace only
BlankInput(c) == \A k \in 1..Len(frame[c].input) : IsSpace(frame[c].input[k])

\* the places <<j, m>> of the characters of a chunk list
Places(cs) == UNION {{j} \X (1..Len(cs[j].text)) : j \in 1..Len(cs)}

\* the character at a place
At(cs, jm) == cs[jm[1]].text[jm[2]]

\* place a comes before place b in reading order
Before(a, b) == a[1] < b[1] \/ (a[1] = b[1] /\ a[2] < b[2])

\* the k-th character of t is the third or a later newline of a run
ExtraNewline(t, k) ==
    k >= 3 /\ t[k].ch = "\n" /\ t[k - 1].ch = "\n" /\ t[k - 2].ch = "\n"

\* the trimmed, newline-collapsed form of a non-blank text t, stated by
\* what stays: the characters from the first to the last non-whitespace
\* one, except the third and later newlines of a run
NormalForm(t) ==
    LET solid == {k \in 1..Len(t) : ~IsSpace(t[k])}
        Stays(c) == /\ Min(solid) <= c.pos
                    /\ c.pos <= Max(solid)
                    /\ ~ExtraNewline(t, c.pos)
    IN  SelectSeq(t, Stays)

\* every chunk of the list cs
AllChunks(cs, P(_)) == \A j \in 1..Len(cs) : P(cs[j])

----------------------------------------------------------------------------
(* Properties of chunk_text *)

\* C1 Size bound: for a positive chunk_size, every chunk emitted so far and
\* every chunk returned has charCount <= chunk_size
SizeBound ==
    \A c \in DOMAIN frame :
        LET f == frame[c]
            Bounded(chunk) == chunk.charCount <= f.chunk_size
        IN  f.chunk_size > 0 =>
                AllChunks(f.chunks, Bounded) /\ AllChunks(f.ret, Bounded)

\* C1 witness: a return of several chunks, one of them joined from more
\* than one sentence or paragraph and of full size
SizeBoundWitness ==
    \E c \in DOMAIN frame :
        LET f == frame[c]
        IN  /\ Returned(c) /\ f.chunk_size > 1 /\ Len(f.ret) >= 2
            /\ \E j \in 1..Len(f.ret) :
                   /\ f.ret[j].charCount = f.chunk_size
                   /\ \E m \in 1..Len(f.ret[j].text) :
                          f.ret[j].text[m].pos = 0

\* C2 No content loss: when chunk_text returns for a positive chunk_size,
\* every non-whitespace character of the input is at exactly one place of
\* the returned chunks, and the chunks hold no other non-whitespace character
NoContentLoss ==
    \A c \in DOMAIN frame :
        LET f == frame[c]
        IN  Returned(c) /\ f.chunk_size > 0 =>
              /\ \A k \in 1..Len(f.input) :
                    ~IsSpace(f.input[k]) =>
                      Cardinality({jm \in Places(f.ret) :
                                     At(f.ret, jm) = f.input[k]}) = 1
              /\ \A jm \in Places(f.ret) :
                    ~IsSpace(At(f.ret, jm)) =>
                      /\ At(f.ret, jm).pos \in 1..Len(f.input)
                      /\ At(f.ret, jm) = f.input[At(f.ret, jm).pos]

\* C2 witness: a multi-chunk return whose input had whitespace that is in
\* no chunk
NoContentLossWitness ==
    \E c \in DOMAIN frame :
        LET f == frame[c]
        IN  /\ Returned(c) /\ f.chunk_size > 0 /\ Len(f.ret) >= 2
            /\ \E k \in 2..Len(f.input) :
                   /\ IsSpace(f.input[k]) /\ ~IsSpace(f.input[1])
                   /\ \E k2 \in k + 1..Len(f.input) : ~IsSpace(f.input[k2])
                   /\ \A jm \in Places(f.ret) : At(f.ret, jm).pos # k

\* C3 Order preservation: in the returned chunks, read chunk after chunk,
\* the characters that come from the input appear in input order
OrderPreserved ==
    \A c \in DOMAIN frame :
        LET f == frame[c]
        IN  Returned(c) =>
              \A a \in Places(f.ret), b \in Places(f.ret) :
                  Before(a, b) /\ At(f.ret, a).pos > 0 /\ At(f.ret, b).pos > 0
                     => At(f.ret, a).pos < At(f.ret, b).pos

\* C3 witness: a return of three or more chunks built from more than one
\* paragraph
OrderPreservedWitness ==
    \E c \in DOMAIN frame :
        LET f == frame[c]
        IN  Returned(c) /\ Len(f.ret) >= 3 /\ Len(f.paragraphs) >= 2

\* C4 Emptiness: for an empty or whitespace-only text chunk_text returns
\* the empty list, whatever chunk_size is
Emptiness ==
    \A c \in DOMAIN frame :
        LET f == frame[c]
        IN  BlankInput(c) => f.pc # "raised" /\ (Returned(c) => f.ret = << >>)

\* C4 witness: a return for a non-empty text of blanks and newlines
EmptinessWitness ==
    \E c \in DOMAIN frame :
        LET f == frame[c]
        IN  /\ Returned(c) /\ BlankInput(c) /\ Len(f.input) >= 3
            /\ \E k \in 1..Len(f.input) : f.input[k].ch = "\n"
            /\ \E k \in 1..Len(f.input) : f.input[k].ch = " "

\* C5 Fast path: a non-blank text whose normal form is no longer than
\* chunk_size comes back as the single chunk holding that normal form
FastPath ==
    \A c \in DOMAIN frame :
        LET f == frame[c]
        IN  Returned(c) /\ ~BlankInput(c)
              /\ Len(NormalForm(f.input)) <= f.chunk_size
            => f.ret = << [text      |-> NormalForm(f.input),
                           charCount |-> Len(NormalForm(f.input)),
                           isLeaf    |-> TRUE] >>

\* C5 witness: a fast-path return whose text was trimmed and had a newline
\* run collapsed, and contains a paragraph separator and a sentence end
FastPathWitness ==
    \E c \in DOMAIN frame :
        LET f == frame[c]
        IN  /\ Returned(c) /\ ~BlankInput(c)
            /\ Len(NormalForm(f.input)) = f.chunk_size
            /\ IsSpace(f.input[1])
            /\ \E k \in 1..Len(f.input) : ExtraNewline(f.input, k)
            /\ Len(f.ret) = 1

\* C6 Totality: for a positive chunk_size chunk_text raises nothing, and
\* for a text that is not blank it returns one or more chunks, none of them
\* with empty text
Totality ==
    \A c \in DOMAIN frame :
        LET f == frame[c]
            NonEmpty(chunk) == chunk.text # << >>
        IN  f.chunk_size > 0 =>
              /\ f.pc # "raised"
              /\ Returned(c) /\ ~BlankInput(c) =>
                    Len(f.ret) >= 1 /\ AllChunks(f.ret, NonEmpty)

\* C6 witness: a return after a window loop that met a window of
\* whitespace only
TotalityWitness ==
    \E c \in DOMAIN frame :
        LET f == frame[c]
        IN  /\ Returned(c) /\ f.chunk_size > 0 /\ ~BlankInput(c)
            /\ \E k \in 1..Len(f.sentences) :
                   \E w \in 0..Len(f.sentences[k]) :
                       /\ Len(f.sentences[k]) > f.chunk_size
                       /\ w * f.chunk_size < Len(f.sentences[k])
                       /\ WindowText(f.sentences[k], w * f.chunk_size,
                                     f.chunk_size) = << >>

ChunkShape ==
    \A c \in DOMAIN frame :
        LET f == frame[c]
            Trimmed(t) == t = << >> \/ (~IsSpace(t[1]) /\ ~IsSpace(t[Len(t)]))
            Shaped(chunk) == /\ Trimmed(chunk.text)
                             /\ chunk.charCount = Len(chunk.text)
                             /\ chunk.isLeaf = TRUE
        IN  AllChunks(f.chunks, Shaped) /\ AllChunks(f.ret, Shaped)

\* C8 witness: a return holding a window chunk that lost whitespace to the
\* trimming, so that it is shorter than the window it was cut from
ChunkShapeWitness ==
    \E c \in DOMAIN frame :
        LET f == frame[c]
        IN  /\ Returned(c) /\ f.chunk_size >= 2 /\ f.i > f.chunk_size
            /\ \E j \in 1..Len(f.ret) :
                   /\ j < Len(f.ret)
                   /\ f.ret[j].charCount < f.chunk_size
                   /\ f.ret[j + 1].text[1].pos
                        > f.ret[j].text[Len(f.ret[j].text)].pos + 1
                   /\ Len(f.paragraphs) = 1 /\ Len(f.sentences) = 1

\* the position of an invocation in its loops: the paragraph it is at, the
\* sentence it is at when inside the sentence loop (0 outside), and one
\* more than the window offset when inside the window loop (0 outside)
Position(f) ==
    << f.p,
       IF f.pc \in {"for_sentence", "for_i"} THEN f.s ELSE 0,
       IF f.pc = "for_i" THEN f.i + 1 ELSE 0 >>

\* position a is lexicographically before position b
Earlier(a, b) ==
    \/ a[1] < b[1]
    \/ a[1] = b[1] /\ a[2] < b[2]
    \/ a[1] = b[1] /\ a[2] = b[2] /\ a[3] < b[3]

Termination ==
    /\ [][\A c \in DOMAIN frame :
             frame'[c] # frame[c] /\ frame[c].pc # "call"
                /\ frame[c].chunk_size > 0 =>
                 \/ Earlier(Position(frame[c]), Position(frame'[c]))
                 \/ frame'[c].pc = "done"]_vars
    /\ (frame[1].chunk_size > 0) ~> (frame[1].pc = "done")

\* C10 witness: a return after a paragraph that was split into two
\* sentences, the second of them sliced into two or more windows
TerminationWitness ==
    \E c \in DOMAIN frame :
        LET f == frame[c]
        IN  /\ Returned(c) /\ f.chunk_size > 0
            /\ Len(f.sentences) = 2
            /\ f.i >= 2 * f.chunk_size
            /\ Len(f.ret) >= 3

\* C13 Buffer invariant: in every state of an invocation the running buffer
\* current_chunk is no longer than chunk_size
BufferBound ==
    \A c \in DOMAIN frame :
        Len(frame[c].current_chunk) <= frame[c].chunk_size

\* C13 witness: inside the sentence loop, a buffer of full size that was
\* joined from two sentences
BufferBoundWitness ==
    \E c \in DOMAIN frame :
        LET f == frame[c]
        IN  /\ f.pc = "for_sentence" /\ f.chunk_size > 0
            /\ Len(f.current_chunk) = f.chunk_size
            /\ \E m \in 1..Len(f.current_chunk) :
                   f.current_chunk[m].pos = 0 /\ f.current_chunk[m].ch = " "

\* the paragraphs the paragraph loop does not skip, trimmed
Paras(f) ==
    LET trimmed == [k \in 1..Len(f.paragraphs) |-> strip(f.paragraphs[k])]
        Solid(q) == q # << >>
    IN  SelectSeq(trimmed, Solid)

\* string a starts with string b
StartsWith(a, b) == Len(b) <= Len(a) /\ SubSeq(a, 1, Len(b)) = b

\* string b lies in string a, from index m on
LiesAt(a, b, m) == m + Len(b) - 1 <= Len(a) /\ SubSeq(a, m, m + Len(b) - 1) = b

\* the chunk is a window cut from a sentence that is longer than chunk_size
IsWindow(f, chunk) ==
    \E k \in 1..Len(Paras(f)) :
        /\ Len(Paras(f)[k]) > f.chunk_size
        /\ \E n \in 1..Len(re_split(Paras(f)[k])) :
               LET sentence == re_split(Paras(f)[k])[n]
               IN  /\ Len(sentence) > f.chunk_size
                   /\ \E m \in 1..Len(sentence) : sentence[m] = chunk.text[1]

\* chunk j + 1 of the return starts with a whole paragraph that fits
\* chunk_size, and chunk j could have taken it in
Absorbable(f, j) ==
    \E k \in 1..Len(Paras(f)) :
        /\ Len(Paras(f)[k]) <= f.chunk_size
        /\ StartsWith(f.ret[j + 1].text, Paras(f)[k])
        /\ Len(f.ret[j].text) + 2 + Len(Paras(f)[k]) <= f.chunk_size

\* C14 as claimed: no chunk that starts with a whole paragraph follows a
\* chunk that could have taken that paragraph in
TightPacking ==
    \A c \in DOMAIN frame :
        LET f == frame[c]
        IN  Returned(c) /\ f.chunk_size > 0 =>
                \A j \in 1..Len(f.ret) - 1 : ~Absorbable(f, j)

\* C14 amended: no chunk that starts with a whole paragraph follows a chunk
\* that could have taken that paragraph in, unless the earlier chunk is a
\* window of a hard-sliced sentence
TightPackingAfterFlush ==
    \A c \in DOMAIN frame :
        LET f == frame[c]
        IN  Returned(c) /\ f.chunk_size > 0 =>
                \A j \in 1..Len(f.ret) - 1 :
                    ~IsWindow(f, f.ret[j]) => ~Absorbable(f, j)

\* C14 witness: a return in which a chunk joined from two paragraphs is
\* followed by a chunk that starts with a whole paragraph
TightPackingWitness ==
    \E c \in DOMAIN frame :
        LET f == frame[c]
        IN  /\ Returned(c) /\ f.chunk_size > 0
            /\ \E j \in 1..Len(f.ret) - 1 :
                   /\ ~IsWindow(f, f.ret[j])
                   /\ \E m \in 1..Len(f.ret[j].text) :
                          f.ret[j].text[m].pos = 0
                   /\ \E k \in 1..Len(Paras(f)) :
                          /\ Len(Paras(f)[k]) <= f.chunk_size
                          /\ StartsWith(f.ret[j + 1].text, Paras(f)[k])

\* the least number of windows of width w that cover n characters
CeilDiv(n, w) == (n + w - 1) \div w

\* the chunks of the list cs that start inside the string t
ChunksOf(cs, t) ==
    LET StartsIn(chunk) == \E m \in 1..Len(t) : t[m] = chunk.text[1]
    IN  SelectSeq(cs, StartsIn)

\* the consecutive windows of width w of the string t
Windows(t, w) ==
    [k \in 1..CeilDiv(Len(t), w) |->
        SubSeq(t, (k - 1) * w + 1, IF k * w < Len(t) THEN k * w ELSE Len(t))]

\* the window loop of invocation c has gone through its sentence
Sliced(c) ==
    /\ frame[c].pc = "for_i"
    /\ frame[c].i >= Len(frame[c].sentences[frame[c].s])

\* C15 as claimed: when the window loop has gone through a sentence of
\* length L, the sentence has given exactly ceil(L / chunk_size) chunks and
\* each of them but the last has charCount chunk_size
HardSliceExact ==
    \A c \in DOMAIN frame :
        LET f == frame[c]
            sentence == f.sentences[f.s]
            mine == ChunksOf(f.chunks, sentence)
        IN  Sliced(c) =>
              /\ Len(mine) = CeilDiv(Len(sentence), f.chunk_size)
              /\ \A k \in 1..Len(mine) - 1 :
                     mine[k].charCount = f.chunk_size

\* C15 amended: when the window loop has gone through a sentence, the
\* sentence has given one chunk per window that is not all whitespace, in
\* window order, each the window trimmed; for a sentence without whitespace
\* these are ceil(L / chunk_size) chunks, each but the last of charCount
\* chunk_size
HardSliceTrimmed ==
    \A c \in DOMAIN frame :
        LET f == frame[c]
            sentence == f.sentences[f.s]
            mine == ChunksOf(f.chunks, sentence)
            Solid(w) == \E m \in 1..Len(w) : ~IsSpace(w[m])
            solid == SelectSeq(Windows(sentence, f.chunk_size), Solid)
        IN  Sliced(c) =>
              /\ Len(mine) = Len(solid)
              /\ \A k \in 1..Len(mine) :
                     /\ mine[k].text = strip(solid[k])
                     /\ mine[k].charCount = Len(strip(solid[k]))
                     /\ mine[k] = f.chunks[Len(f.chunks) - Len(mine) + k]
              /\ (\A m \in 1..Len(sentence) : ~IsSpace(sentence[m])) =>
                     /\ Len(mine) = CeilDiv(Len(sentence), f.chunk_size)
                     /\ \A k \in 1..Len(mine) - 1 :
                            mine[k].charCount = f.chunk_size

\* C15 witness: the window loop has gone through a sentence without
\* whitespace that gave three chunks, the last one shorter than the others
HardSliceWitness ==
    \E c \in DOMAIN frame :
        LET f == frame[c]
            sentence == f.sentences[f.s]
            mine == ChunksOf(f.chunks, sentence)
        IN  /\ Sliced(c)
            /\ \A m \in 1..Len(sentence) : ~IsSpace(sentence[m])
            /\ Len(mine) = 3 /\ f.chunk_size = 2
            /\ mine[3].charCount = 1

\* the string t lies whole and contiguous inside one chunk of the list cs
InOneChunk(cs, t) ==
    \E j \in 1..Len(cs) : \E m \in 1..Len(cs[j].text) : LiesAt(cs[j].text, t, m)

\* C16 Paragraph boundary preference: when the multi-chunk path returns,
\* every paragraph whose trimmed length is at most chunk_size lies whole and
\* contiguous inside one chunk, and the sentence and window loops only ever
\* run on a paragraph whose trimmed length exceeds chunk_size
ParagraphPreference ==
    \A c \in DOMAIN frame :
        LET f == frame[c]
        IN  /\ Returned(c) /\ f.chunk_size > 0 =>
                  \A k \in 1..Len(Paras(f)) :
                      Len(Paras(f)[k]) <= f.chunk_size =>
                          InOneChunk(f.ret, Paras(f)[k])
            /\ f.pc \in {"for_sentence", "for_i"} =>
                  /\ Len(strip(f.paragraphs[f.p])) > f.chunk_size
                  /\ f.sentences = re_split(strip(f.paragraphs[f.p]))

\* C16 witness: a return after a paragraph that was split into sentences,
\* with a paragraph of exactly chunk_size characters that lies whole inside
\* a chunk
ParagraphPreferenceWitness ==
    \E c \in DOMAIN frame :
        LET f == frame[c]
        IN  /\ Returned(c) /\ f.chunk_size > 0
            /\ f.sentences # << >>
            /\ \E k \in 1..Len(Paras(f)) :
                   /\ Len(Paras(f)[k]) = f.chunk_size
                   /\ InOneChunk(f.ret, Paras(f)[k])

\* C17 Sentence boundary preference: when the multi-chunk path returns,
\* every sentence of at most chunk_size characters of a paragraph longer
\* than chunk_size lies whole and contiguous inside one chunk, and the
\* window loop only ever runs on a sentence longer than chunk_size
SentencePreference ==
    \A c \in DOMAIN frame :
        LET f == frame[c]
        IN  /\ Returned(c) /\ f.chunk_size > 0 =>
                  \A k \in 1..Len(Paras(f)) :
                      Len(Paras(f)[k]) > f.chunk_size =>
                          \A n \in 1..Len(re_split(Paras(f)[k])) :
                              LET sentence == re_split(Paras(f)[k])[n]
                              IN  Len(sentence) <= f.chunk_size =>
                                      InOneChunk(f.ret, sentence)
            /\ f.pc = "for_i" => Len(f.sentences[f.s]) > f.chunk_size

\* C17 witness: a return for a paragraph with a sentence of exactly
\* chunk_size characters, which lies whole inside a chunk, and a sentence
\* that was sliced into windows
SentencePreferenceWitness ==
    \E c \in DOMAIN frame :
        LET f == frame[c]
        IN  /\ Returned(c) /\ f.chunk_size > 0
            /\ \E k \in 1..Len(Paras(f)) :
                   LET sentences == re_split(Paras(f)[k])
                   IN  /\ Len(Paras(f)[k]) > f.chunk_size
                       /\ \E n \in 1..Len(sentences) :
                              /\ Len(sentences[n]) = f.chunk_size
                              /\ InOneChunk(f.ret, sentences[n])
                       /\ \E n \in 1..Len(sentences) :
                              Len(sentences[n]) > f.chunk_size

\* every two neighbours of the list of strings ps are together, with their
\* separator, longer than size
NoPairFits(ps, size) ==
    \A k \in 1..Len(ps) - 1 : Len(ps[k]) + Len(ps[k + 1]) + 2 > size

\* C18 as claimed: a text of two or more non-empty paragraphs, each no
\* longer than chunk_size and no two neighbours fitting together, returns
\* one chunk per paragraph, chunk k holding paragraph k
ChunkPerParagraph ==
    \A c \in DOMAIN frame :
        LET f == frame[c]
            ps == f.paragraphs
        IN  /\ Returned(c) /\ f.chunk_size > 0 /\ Len(ps) >= 2
            /\ \A k \in 1..Len(ps) : ps[k] # << >> /\ Len(ps[k]) <= f.chunk_size
            /\ NoPairFits(ps, f.chunk_size)
            => /\ Len(f.ret) = Len(ps)
               /\ \A k \in 1..Len(ps) : f.ret[k].text = strip(ps[k])

\* C18 amended: a text of two or more paragraphs, each non-empty after
\* trimming and then no longer than chunk_size, and no two trimmed
\* neighbours fitting together, returns one chunk per paragraph, chunk k
\* holding the trimmed paragraph k
ChunkPerTrimmedParagraph ==
    \A c \in DOMAIN frame :
        LET f == frame[c]
            ps == [k \in 1..Len(f.paragraphs) |-> strip(f.paragraphs[k])]
        IN  /\ Returned(c) /\ f.chunk_size > 0 /\ Len(ps) >= 2
            /\ \A k \in 1..Len(ps) : ps[k] # << >> /\ Len(ps[k]) <= f.chunk_size
            /\ NoPairFits(ps, f.chunk_size)
            => /\ Len(f.ret) = Len(ps)
               /\ \A k \in 1..Len(ps) :
                      f.ret[k].text = ps[k] /\ f.ret[k].charCount = Len(ps[k])

\* C18 witness: a return of three chunks for three paragraphs of which no
\* two neighbours fit together, one of them with whitespace at an edge
ChunkPerParagraphWitness ==
    \E c \in DOMAIN frame :
        LET f == frame[c]
            ps == [k \in 1..Len(f.paragraphs) |-> strip(f.paragraphs[k])]
        IN  /\ Returned(c) /\ f.chunk_size > 0 /\ Len(ps) = 3
            /\ \A k \in 1..Len(ps) : ps[k] # << >> /\ Len(ps[k]) <= f.chunk_size
            /\ NoPairFits(ps, f.chunk_size)
            /\ \E k \in 1..Len(ps) : ps[k] # f.paragraphs[k]
            /\ Len(f.ret) = 3

\* paragraph k of the frame f is all whitespace
BlankParagraph(f, k) == strip(f.paragraphs[k]) = << >>

\* C19 Whitespace-only paragraphs are skipped: the step of the paragraph
\* loop on a paragraph that is empty after trimming changes neither the
\* buffer nor the chunks emitted so far and goes on to the next paragraph,
\* and no chunk returned holds a character of such a paragraph
BlankParagraphSkipped ==
    [][\A c \in DOMAIN frame :
          LET f == frame[c]
              g == frame'[c]
          IN  /\ ( /\ f.pc = "for_para" /\ f.p <= Len(f.paragraphs)
                   /\ BlankParagraph(f, f.p) /\ g # f )
                  => /\ g.chunks = f.chunks
                     /\ g.current_chunk = f.current_chunk
                     /\ g.pc = "for_para" /\ g.p = f.p + 1
              /\ g.pc = "done" =>
                    \A k \in 1..Len(g.paragraphs) :
                        BlankParagraph(g, k) =>
                            \A jm \in Places(g.ret), m \in 1..Len(g.paragraphs[k]) :
                                At(g.ret, jm) # g.paragraphs[k][m]]_vars

\* C19 witness: a return of one chunk that was joined across a
\* whitespace-only paragraph
BlankParagraphWitness ==
    \E c \in DOMAIN frame :
        LET f == frame[c]
        IN  /\ Returned(c) /\ f.chunk_size > 0
            /\ Len(f.paragraphs) = 3 /\ f.paragraphs[2] # << >>
            /\ BlankParagraph(f, 2)
            /\ Len(f.ret) = 1

\* the string t has three newlines in a row
TripleNewline(t) ==
    \E k \in 1..Len(t) - 2 :
        t[k].ch = "\n" /\ t[k + 1].ch = "\n" /\ t[k + 2].ch = "\n"

\* the texts of a chunk list, untagged
ChunkTexts(cs) == [j \in 1..Len(cs) |-> Chars(cs[j].text)]

\* the argument text of the frame f with every run of three or more
\* newlines cut down to two
Collapsed(f) ==
    LET Stays(ch) == ~ExtraNewline(f.input, ch.pos)
    IN  Chars(SelectSeq(f.input, Stays))

\* C20 Newline normalization precedes splitting: no chunk emitted or
\* returned has three newlines in a row; no paragraph of the split is empty
\* or has a newline at an edge; and the chunks returned are those returned
\* for the text in which every run of three or more newlines is two newlines
NewlinesNormalized ==
    \A c \in DOMAIN frame :
        LET f == frame[c]
            Clean(chunk) == ~TripleNewline(chunk.text)
        IN  /\ AllChunks(f.chunks, Clean) /\ AllChunks(f.ret, Clean)
            /\ \A k \in 1..Len(f.paragraphs) :
                   LET q == f.paragraphs[k]
                   IN  q # << >> /\ q[1].ch # "\n" /\ q[Len(q)].ch # "\n"
            /\ Returned(c) =>
                   ChunkTexts(f.ret) = ChunkTexts(chunk_text(Collapsed(f), f.chunk_size).ret)

\* C20 witness: a return of two chunks for a text with a run of three or
\* more newlines between two paragraphs
NewlinesNormalizedWitness ==
    \E c \in DOMAIN frame :
        LET f == frame[c]
        IN  /\ Returned(c) /\ Len(f.ret) = 2
            /\ \E k \in 2..Len(f.input) - 1 :
                   /\ ExtraNewline(f.input, k)
                   /\ \E m \in 1..k - 1 : ~IsSpace(f.input[m])
                   /\ \E m \in k + 1..Len(f.input) : ~IsSpace(f.input[m])

\* C11 Chunk size clamping: the chunk_size of every invocation of chunk_text
\* made by the export started from the command line is within
\* MIN_CHUNK_SIZE..MAX_CHUNK_SIZE; it is the requested value when that is
\* within the limits and the nearer limit otherwise
ChunkSizeClamped ==
    0 \in DOMAIN frame =>
        \A c \in DOMAIN frame \ {0} :
            LET requested == frame[0].requested
                size == frame[c].chunk_size
            IN  /\ MIN_CHUNK_SIZE <= size /\ size <= MAX_CHUNK_SIZE
                /\ requested < MIN_CHUNK_SIZE => size = MIN_CHUNK_SIZE
                /\ requested > MAX_CHUNK_SIZE => size = MAX_CHUNK_SIZE
                /\ (MIN_CHUNK_SIZE <= requested /\ requested <= MAX_CHUNK_SIZE)
                       => size = requested

\* C11 witness: chunk_text has returned for the second file of an export
\* whose requested chunk size was negative
ChunkSizeClampedWitness ==
    /\ 0 \in DOMAIN frame
    /\ 2 \in DOMAIN frame
    /\ frame[0].requested < 0
    /\ frame[2].pc = "done"
    /\ frame[2].chunk_size = MIN_CHUNK_SIZE

\* the number a string of decimal digits stands for
RECURSIVE DecimalValue(_)
DecimalValue(ds) ==
    IF ds = << >> THEN 0
    ELSE 10 * DecimalValue(SubSeq(ds, 1, Len(ds) - 1))
           + (CHOOSE d \in 0..9 : Digit(d) = ds[Len(ds)])

\* the name reads "Chunk n"
ReadsChunk(name, n) ==
    /\ Len(name) > 6
    /\ SubSeq(name, 1, 6) = << "C", "h", "u", "n", "k", " " >>
    /\ \A m \in 7..Len(name) : \E d \in 0..9 : Digit(d) = name[m]
    /\ name[7] # "0"
    /\ DecimalValue(SubSeq(name, 7, Len(name))) = n

\* C12 Chunk node wrapping: create_chunk_nodes returns one node per chunk in
\* chunk order; node i has chunkIndex i counted from zero, the file id, the
\* text, charCount and isLeaf of chunk i, and the name "Chunk i+1" when
\* there is more than one chunk, the name of the parent otherwise
ChunkNodes ==
    \A c \in DOMAIN frame :
        LET f == frame[c]
        IN  f.pc = "nodes" =>
              /\ Len(f.nodes) = Len(f.chunks)
              /\ \A i \in 0..Len(f.chunks) - 1 :
                     LET node == f.nodes[i + 1]
                         chunk == f.chunks[i + 1]
                     IN  /\ node.external.chunkIndex = i
                         /\ node.external.fileId = f.file_id
                         /\ node.description = chunk.text
                         /\ node.rag.chunk.charCount = chunk.charCount
                         /\ node.rag.chunk.isLeaf = chunk.isLeaf
                         /\ Len(f.chunks) > 1 => ReadsChunk(node.name, i + 1)
                         /\ Len(f.chunks) <= 1 => node.name = f.parent_name

\* C12 witness: the nodes of eleven chunks, the last one named "Chunk 11"
ChunkNodesWitness ==
    \E c \in DOMAIN frame :
        LET f == frame[c]
        IN  /\ f.pc = "nodes" /\ Len(f.nodes) = 11
            /\ f.nodes[11].name =
                   << "C", "h", "u", "n", "k", " ", "1", "1" >>
            /\ f.nodes[11].external.chunkIndex = 10

\* the loop variable item of the scan frame f is a file of an extractable type
AtFile(f) ==
    /\ f.pc = "for_item"
    /\ "mimeType" \in DOMAIN f.item
    /\ f.item.mimeType \in DOMAIN EXTRACTABLE_TYPES

\* what the file the scan frame f is at gave: its text, whether it passed the
\* threshold, its chunks
ExtractAt(f) ==
    (CHOOSE r \in Extracted : r.item = f.item /\ r.has = frame[0].has).x

\* C21 File node shape: after a file that passed the threshold, the node
\* appended for it holds the text of the chunk as description and no chunk
\* nodes if the file gave one chunk, and holds k chunk nodes, one per chunk
\* in chunk order, if it gave k > 1 chunks
FileNodeShape ==
    \A c \in DOMAIN frame \ {0} :
        LET f == frame[c]
        IN  AtFile(f) /\ ExtractAt(f).extracted =>
              LET node == f.children[Len(f.children)]
                  chunks == ExtractAt(f).chunks
              IN  /\ node.external.id = f.item.id
                  /\ Len(chunks) = 1 =>
                        /\ "items" \notin DOMAIN node
                        /\ "description" \in DOMAIN node
                        /\ node.description = chunks[1].text
                  /\ Len(chunks) > 1 =>
                        /\ "items" \in DOMAIN node
                        /\ Len(node.items) = Len(chunks)
                        /\ \A k \in 1..Len(chunks) :
                               /\ node.items[k].description = chunks[k].text
                               /\ node.items[k].external.chunkIndex = k - 1

\* C21 witness: a folder in which a file with one chunk was followed by a
\* file with two chunks
FileNodeShapeWitness ==
    \E c \in DOMAIN frame \ {0} :
        LET f == frame[c]
        IN  /\ AtFile(f) /\ Len(f.children) = 2
            /\ "description" \in DOMAIN f.children[1]
            /\ "items" \in DOMAIN f.children[2]
            /\ Len(f.children[2].items) = 2

\* the request for the file's content raises, or the parser of its type does
ExtractionFails(item, has) ==
    \/ item.request_raises
    \/ /\ item.content.parse_raises
       /\ \/ item.mimeType = "application/pdf" /\ has.HAS_PYMUPDF
          \/ /\ item.mimeType \in
                   {"application/vnd.openxmlformats-officedocument.wordprocessingml.document",
                    "application/msword"}
             /\ has.HAS_DOCX
          \/ /\ item.mimeType =
                   "application/vnd.openxmlformats-officedocument.spreadsheetml.sheet"
             /\ has.HAS_OPENPYXL

\* C22 Per-document failure isolation, as claimed: the step of the scan on a
\* file whose download or extraction fails counts the file in files_processed
\* only, keeps the nodes built so far, in this folder and in the folders
\* above, and stays in the loop over the folder's items
FailureIsolated ==
    [][ frame'[0].stats.files_processed = frame[0].stats.files_processed + 1
        /\ ExtractionFails(frame'[Top].item, frame[0].has)
        => /\ frame'[0].stats.files_extracted = frame[0].stats.files_extracted
           /\ frame'[0].stats.total_chunks = frame[0].stats.total_chunks
           /\ DOMAIN frame' = DOMAIN frame
           /\ \A c \in DOMAIN frame \ {0} :
                  /\ frame'[c].children = frame[c].children
                  /\ frame'[c].pc = frame[c].pc ]_vars

\* a tree node is the node of a file
IsFileNode(node) == node.type = "item"

\* the number of file nodes in a list of nodes and below it
RECURSIVE FileNodes(_)
FileNodes(nodes) ==
    IF nodes = << >> THEN 0
    ELSE (IF IsFileNode(Head(nodes)) THEN 1
          ELSE FileNodes(Head(nodes).children))
         + FileNodes(Tail(nodes))

\* the number of chunks a file node carries
ChunksCarried(node) ==
    IF "items" \in DOMAIN node THEN Len(node.items)
    ELSE IF "chunk" \in DOMAIN node.rag THEN 1
    ELSE 0

\* the number of chunks the file nodes in a list of nodes and below it carry
RECURSIVE ChunksIn(_)
ChunksIn(nodes) ==
    IF nodes = << >> THEN 0
    ELSE (IF IsFileNode(Head(nodes)) THEN ChunksCarried(Head(nodes))
          ELSE ChunksIn(Head(nodes).children))
         + ChunksIn(Tail(nodes))

\* C28 Drive content statistics match the tree: when the scan has returned
\* to the export, files_extracted <= files_processed, files_extracted is the
\* number of file nodes of the tree, total_chunks is the number of chunks
\* these nodes carry, and total_chunks >= files_extracted
StatsMatchTree ==
    0 \in DOMAIN frame /\ frame[0].pc = "done" =>
        LET stats == frame[0].stats
            children == frame[0].children
        IN  /\ stats.files_extracted <= stats.files_processed
            /\ stats.files_extracted = FileNodes(children)
            /\ stats.total_chunks = ChunksIn(children)
            /\ stats.total_chunks >= stats.files_extracted

\* C28 witness: a returned tree with a file of two chunks in a subfolder,
\* after a file that was skipped
StatsMatchTreeWitness ==
    /\ 0 \in DOMAIN frame /\ frame[0].pc = "done"
    /\ frame[0].stats.files_processed = 2
    /\ frame[0].stats.files_extracted = 1
    /\ frame[0].stats.total_chunks = 2
    /\ \E k \in 1..Len(frame[0].children) :
           /\ ~IsFileNode(frame[0].children[k])
           /\ FileNodes(frame[0].children[k].children) = 1

\* the files of the first k pages of a listing, in page order
FilesOfPages(pages, k) == Concat(SubSeq(pages, 1, k))

\* fetch_drive_files behaves as a pager: while it loops it holds the files of
\* the pages before the one it asks for next; returning without an HttpError
\* it returns the files of all pages in page order; returning after an
\* HttpError it returns the empty list
PagingSafe ==
    LET f == frame[2]
        pages == frame[3].pages
        k == IF f.page_token.is_none THEN 1 ELSE f.page_token.page
    IN  /\ f.pc = "while" =>
               k \in 1..Len(pages) /\ f.all_files = FilesOfPages(pages, k - 1)
        /\ f.pc = "done" /\ f.error.is_none =>
               f.ret = FilesOfPages(pages, Len(pages))
        /\ f.pc = "done" /\ ~f.error.is_none => f.ret = << >>

\* C25 Drive paging: fetch_drive_files asks for page after page until a
\* response has no nextPageToken and then returns the files of all pages in
\* page order; after an HttpError it returns the empty list whatever it had
\* fetched; and on a Drive whose listing ends it leaves its loop
DrivePaging == []PagingSafe /\ <>(frame[2].pc # "while")

\* C25 witness: a listing of three pages, the first and the last not empty,
\* returned whole
DrivePagingWitness ==
    /\ frame[2].pc = "done" /\ frame[2].error.is_none
    /\ Len(frame[3].pages) = 3
    /\ frame[3].pages[1] # << >> /\ frame[3].pages[3] # << >>
    /\ frame[2].ret = FilesOfPages(frame[3].pages, 3)

\* the ids of a list of nodes and of the nodes below them
RECURSIVE IdsOf(_)
IdsOf(nodes) ==
    IF nodes = << >> THEN << >>
    ELSE LET node == Head(nodes)
             below == IF "subtasks" \in DOMAIN node THEN node.subtasks
                      ELSE IF "items" \in DOMAIN node THEN node.items
                      ELSE IF "children" \in DOMAIN node THEN node.children
                      ELSE << >>
         IN  << node.id >> \o IdsOf(below) \o IdsOf(Tail(nodes))

\* no value occurs twice in a sequence
Distinct(s) == \A i, j \in 1..Len(s) : s[i] = s[j] => i = j

\* C29 unique node ids in the Drive metadata tree: in the tree that
\* convert_to_treelisty returns no two nodes (phases, items, subtasks at
\* any depth) have the same id
UniqueNodeIds ==
    0 \in DOMAIN frame /\ frame[0].pc = "done" =>
        Distinct(IdsOf(<< frame[0].ret >>))

\* the handler has answered
Responded == 0 \in DOMAIN frame /\ frame[0].pc = "responded"

\* the export run of the request has left no file
NoOutput == \A f \in frame[4].json_files : f.mtime < frame[4].clock

\* the export run of the request has failed: it could not be started, was
\* killed, ended with an error code or caught an exception
RunFailed ==
    \/ 1 \notin DOMAIN frame
    \/ frame[1].pc = "killed"
    \/ frame[1].pc = "exited"
       /\ (frame[1].returncode # 0 \/ ~frame[1].e.is_none)

\* C23 failed export is reported as failure: when the export run of a
\* refresh request fails or leaves no output file, the answer has
\* success = false and an error status, and so does not carry the tree of
\* an earlier export
FailureReported ==
    Responded /\ (RunFailed \/ NoOutput) =>
        /\ ~frame[0].response.success
        /\ frame[0].response.status >= 400

\* C24 requested depth is honoured: the depth the export run converts with
\* is the syncDepth of the request's source metadata, 10 when it has none
DepthHonoured ==
    1 \in DOMAIN frame /\ frame[1].pc = "save" =>
        frame[1].max_depth =
            (IF "syncDepth" \in DOMAIN frame[0].source_metadata
             THEN frame[0].source_metadata.syncDepth
             ELSE 10)

\* the place of a group in the order past, today, tomorrow, this_week,
\* next_week, later
Rank(group) ==
    CHOOSE r \in 1..6 :
        << "past", "today", "tomorrow", "this_week", "next_week",
           "later" >>[r] = group

\* the number of the Monday-to-Sunday week a date lies in
Week(date) == (date - 1) \div 7

\* C26 calendar bucketing: for an event with a valid start date
\* categorize_event returns past for a start before today, today for today,
\* tomorrow for the day after, this_week for a later day of today's week,
\* next_week for a later day of the week after, and later otherwise; hence
\* of two events the one that starts later is never in an earlier group,
\* whatever weekday today is
CalendarBucketing ==
    /\ \A c \in DOMAIN frame :
           frame[c].pc = "done" /\ frame[c].ret # "other" =>
               LET s == frame[c].start_date
                   t == frame[c].today
                   ret == frame[c].ret
               IN  /\ ret = "past" <=> s < t
                   /\ ret = "today" <=> s = t
                   /\ ret = "tomorrow" <=> s = t + 1
                   /\ ret = "this_week" <=> s > t + 1 /\ Week(s) = Week(t)
                   /\ ret = "next_week" <=>
                          s > t + 1 /\ Week(s) = Week(t) + 1
                   /\ ret = "later" <=> Week(s) > Week(t) + 1
    /\ \A c \in DOMAIN frame :
           frame[c].pc = "done" /\ strptime(frame[c].event_node.startDate).ok
               => frame[c].ret # "other"
    /\ \A c1, c2 \in DOMAIN frame :
           /\ frame[c1].pc = "done" /\ frame[c1].ret # "other"
           /\ frame[c2].pc = "done" /\ frame[c2].ret # "other"
           /\ frame[c1].start_date <= frame[c2].start_date
           => Rank(frame[c1].ret) <= Rank(frame[c2].ret)

\* C26 witness: today is a Sunday, one event starts the day after and is in
\* tomorrow, the other starts two days after and is in next_week
CalendarBucketingWitness ==
    /\ frame[0].pc = "done" /\ frame[1].pc = "done"
    /\ weekday(frame[0].today) = 6
    /\ frame[0].ret = "tomorrow"
    /\ frame[1].ret = "next_week"
    /\ frame[1].start_date = frame[0].start_date + 1

\* the places << phase, item >> of the tree where the node of an event is
PlacesOf(children, event) ==
    {pk \in (1..Len(children)) \X (1..MaxEvents + 1) :
        /\ pk[2] <= Len(children[pk[1]].items)
        /\ children[pk[1]].items[pk[2]].eventId = event.id}

\* the number of items of the phases of a tree
RECURSIVE ItemCount(_)
ItemCount(children) ==
    IF children = << >> THEN 0
    ELSE Len(Head(children).items) + ItemCount(Tail(children))

\* C30 no calendar event is dropped: when export_calendar has written its
\* tree, every event the API call returned is in exactly one phase, and
\* the item counts of the phases add up to the number of events
NoEventDropped ==
    0 \in DOMAIN frame /\ frame[0].pc = "done" /\ ~frame[0].ret.is_none =>
        /\ \A k \in 1..Len(frame[0].events) :
               Cardinality(PlacesOf(frame[0].children,
                                    frame[0].events[k])) = 1
        /\ ItemCount(frame[0].children) = Len(frame[0].events)

\* no call of extract_content is under way
BetweenCalls == 1 \in DOMAIN frame => frame[1].pc = "done"

\* the sum of the three outcome counters
Outcomes(stats) == stats.succeeded + stats.failed + stats.skipped

\* a step in which the call of extract_content returns
Returns == 1 \in DOMAIN frame /\ frame[1].pc # "done" /\ frame'[1].pc = "done"

\* C27 extraction counters stay consistent: between calls of
\* extract_content attempted = succeeded + failed + skipped; no step lowers
\* a counter; a call raises attempted by one when it starts, and the step
\* it returns with raises exactly one of succeeded, failed and skipped, by
\* one, and no other step raises any of them
ExtractionCounters ==
    /\ [](BetweenCalls =>
             frame[0].extraction_stats.attempted
                 = Outcomes(frame[0].extraction_stats))
    /\ [][LET old == frame[0].extraction_stats
              new == frame'[0].extraction_stats
          IN  /\ \A key \in DOMAIN old : new[key] >= old[key]
              /\ new.attempted - old.attempted
                     = (IF 1 \in DOMAIN frame /\ frame[1].pc = "attempt"
                        THEN 1 ELSE 0)
              /\ Outcomes(new) - Outcomes(old) = (IF Returns THEN 1 ELSE 0)
       ]_vars

\* C27 witness: three calls have returned, one counted as succeeded, one as
\* failed and one as skipped
ExtractionCountersWitness ==
    /\ 1 \in DOMAIN frame /\ frame[1].pc = "done"
    /\ frame[0].extraction_stats.attempted = 3
    /\ frame[0].extraction_stats.succeeded = 1
    /\ frame[0].extraction_stats.failed = 1
    /\ frame[0].extraction_stats.skipped = 1

====
